---- MODULE Spec2Model ----
(***************************************************************************)
(* APGer Engine: manifest-driven build orchestration and packaging.        *)
(*                                                                         *)
(* The module models                                                       *)
(*   - VersionResolver   (.ci/engine/version_resolver.py)                  *)
(*   - FlagTranslator    (.ci/engine/flag_translator.py)                   *)
(*   - JSONParser        (.ci/engine/json_parser.py)                       *)
(*   - BuildManager      (.ci/engine/build_templates.py)                   *)
(*   - APGPackageBuilder (.ci/engine/apg_builder.py)                       *)
(*   - main              (.ci/main.py)                                     *)
(*                                                                         *)
(* Python strings whose characters matter (tags, versions, listings) are   *)
(* sequences of one-character strings; identifiers that are only compared  *)
(* for equality (template names, flag names, hosts) are TLA+ strings.      *)
(***************************************************************************)
EXTENDS Integers, Sequences, FiniteSets, TLC

VARIABLES
    \* ---- VersionResolver.resolve_latest_version, one call
    rUrl,        \* the source URL of the call (parsed form)
    rHttp,       \* the answers of the HTTP requests the call makes
    rResult,     \* what the call returned or raised
    rDone,       \* the call has returned
    \* ---- FlagTranslator.translate_flags, one call
    fSystem,     \* build_system argument
    fFlags,      \* use_flags argument
    fResult,     \* returned list
    fDone,       \* the call has returned
    \* ---- main: one run over a repodata directory
    repodataExists, \* the repodata directory exists
    manifests,   \* the *.json files of repodata, in glob order
    distExists,  \* the parent of the output directory dist/output exists
    pc,          \* where main is: "parse", "download", "setup", "compile",
                 \* "install", "package", "sign", "done"
    packages,    \* the package records parsed so far / iterated by main
    cur,         \* index of the package the for loop is at (0 before the loop)
    bstate,      \* state of the build of the package at hand (of the latest
                 \* build once it failed): NotStarted, SetupDone, CompileDone,
                 \* InstallDone, Failed
    calls,       \* history: the external operations invoked, with their results
    outcome,     \* how main ended: "running", "completed", "validation_error",
                 \* "unexpected_error"
    processed,   \* packages logged as successfully processed (main.py:93)
    output,      \* names of the files in dist/output
    scratch,     \* the packages whose TemporaryDirectory exists
    \* ---- APGPackageBuilder.create_apg_package, one call
    aIn,         \* the arguments and the environment of the call
    aResult,     \* what the call returned or raised, and what it wrote
    aDone        \* the call has returned

resolverVars == <<rUrl, rHttp, rResult, rDone>>
flagVars == <<fSystem, fFlags, fResult, fDone>>
mainVars == <<repodataExists, manifests, distExists, pc, packages, cur, bstate, calls,
              outcome, processed, output, scratch>>
vars == <<rUrl, rHttp, rResult, rDone, fSystem, fFlags, fResult, fDone,
          repodataExists, manifests, distExists, pc, packages, cur, bstate, calls,
          outcome, processed, output, scratch, aIn, aResult, aDone>>
archiveVars == <<aIn, aResult, aDone>>

(***************************************************************************)
(* Bounds                                                                  *)
(***************************************************************************)
\* tokens concatenated into one directory listing
MaxTokens == 3
\* length of a use-flag list
MaxFlags == 3
\* manifest files in the repodata directory
MaxManifests == 2

(***************************************************************************)
(* Python values                                                           *)
(***************************************************************************)
\* a function result: a returned value or a raised exception
Returned(v) == [raised |-> FALSE, value |-> v, exc |-> ""]
Raised(e) == [raised |-> TRUE, value |-> <<>>, exc |-> e]

\* JSON documents, tagged by their Python type after json.load
\* (s: the characters of a string, items: the elements of an array,
\*  fields: the <<key, value>> pairs of an object)
JNull == [t |-> "null", s |-> <<>>, items |-> <<>>, fields |-> <<>>]
JNum == [t |-> "num", s |-> <<>>, items |-> <<>>, fields |-> <<>>]
JStr(s) == [t |-> "str", s |-> s, items |-> <<>>, fields |-> <<>>]
JArr(items) == [t |-> "arr", s |-> <<>>, items |-> items, fields |-> <<>>]
JObj(fields) == [t |-> "obj", s |-> <<>>, items |-> <<>>, fields |-> fields]

\* Python truthiness of a JSON value (numbers of the model are non-zero)
Truthy(j) ==
    CASE j.t = "null" -> FALSE
      [] j.t = "num" -> TRUE
      [] j.t = "str" -> j.s # <<>>
      [] j.t = "arr" -> j.items # <<>>
      [] j.t = "obj" -> j.fields # <<>>

RECURSIVE Concat(_)
Concat(ss) == IF ss = <<>> THEN <<>> ELSE Head(ss) \o Concat(Tail(ss))

(***************************************************************************)
(* VersionResolver                                                         *)
(***************************************************************************)
Unknown == <<"u", "n", "k", "n", "o", "w", "n">>

Digits == {"0", "1", "2", "3", "4", "5", "6", "7", "8", "9"}

DigitVal(c) ==
    CASE c = "0" -> 0 [] c = "1" -> 1 [] c = "2" -> 2 [] c = "3" -> 3
      [] c = "4" -> 4 [] c = "5" -> 5 [] c = "6" -> 6 [] c = "7" -> 7
      [] c = "8" -> 8 [] c = "9" -> 9

\* int(i) of a non-empty digit string
RECURSIVE int(_)
int(s) == IF s = <<>> THEN 0 ELSE int(SubSeq(s, 1, Len(s) - 1)) * 10 + DigitVal(s[Len(s)])

\* x.split('.')
RECURSIVE split(_)
split(s) ==
    IF \A i \in 1..Len(s) : s[i] # "."
    THEN <<s>>
    ELSE LET k == CHOOSE i \in 1..Len(s) : s[i] = "." /\ \A j \in 1..(i - 1) : s[j] # "."
         IN <<SubSeq(s, 1, k - 1)>> \o split(SubSeq(s, k + 1, Len(s)))

\* the key of max(): [int(i) for i in x.split('.')]
VersionKey(x) == LET p == split(x) IN [i \in 1..Len(p) |-> int(p[i])]

\* Python's list comparison a < b
RECURSIVE ListLess(_, _)
ListLess(a, b) ==
    IF a = <<>> THEN b # <<>>
    ELSE IF b = <<>> THEN FALSE
    ELSE IF Head(a) # Head(b) THEN Head(a) < Head(b)
    ELSE ListLess(Tail(a), Tail(b))

\* the order max() uses on two candidates
KeyLess(a, b) == ListLess(VersionKey(a), VersionKey(b))

\* max(matches, key=...): the first element whose key no later element exceeds
RECURSIVE MaxByKey(_, _)
MaxByKey(best, rest) ==
    IF rest = <<>> THEN best
    ELSE IF KeyLess(best, Head(rest)) THEN MaxByKey(Head(rest), Tail(rest))
    ELSE MaxByKey(best, Tail(rest))

\* the character class [\s/_\-]
IsDelim(c) == c \in {" ", "\t", "\n", "/", "_", "-"}

\* end of the maximal run of digits starting at p (p itself when there is none)
RECURSIVE RunEnd(_, _)
RunEnd(s, p) == IF p <= Len(s) /\ s[p] \in Digits THEN RunEnd(s, p + 1) ELSE p

\* \d+\.\d+\.\d+(?:[\s/_\-]|$) with the digits starting at st
MatchBody(s, st) ==
    LET e1 == RunEnd(s, st)
        e2 == RunEnd(s, e1 + 1)
        e3 == RunEnd(s, e2 + 1)
        shape == /\ e1 > st /\ e1 <= Len(s) /\ s[e1] = "."
                 /\ e2 > e1 + 1 /\ e2 <= Len(s) /\ s[e2] = "."
                 /\ e3 > e2 + 1
    IN IF shape /\ e3 = Len(s) + 1
       THEN [ok |-> TRUE, group |-> SubSeq(s, st, e3 - 1), next |-> e3]
       ELSE IF shape /\ IsDelim(s[e3])
       THEN [ok |-> TRUE, group |-> SubSeq(s, st, e3 - 1), next |-> e3 + 1]
       ELSE [ok |-> FALSE, group |-> <<>>, next |-> st]

\* one attempt of the whole pattern at position p: (?:^|[\s/_\-]) then the body
MatchAt(s, p) ==
    LET atStart == IF p = 1 THEN MatchBody(s, 1)
                   ELSE [ok |-> FALSE, group |-> <<>>, next |-> p]
    IN IF atStart.ok THEN atStart
       ELSE IF IsDelim(s[p]) THEN MatchBody(s, p + 1)
       ELSE [ok |-> FALSE, group |-> <<>>, next |-> p]

\* re.findall(version_pattern, html_content): non-overlapping, left to right
RECURSIVE FindAllFrom(_, _)
FindAllFrom(s, p) ==
    IF p > Len(s) THEN <<>>
    ELSE LET m == MatchAt(s, p)
         IN IF m.ok THEN <<m.group>> \o FindAllFrom(s, m.next)
            ELSE FindAllFrom(s, p + 1)

findall(s) == FindAllFrom(s, 1)

\* an HTTP answer: the request fails, the status is not 2xx, or a body arrives
\* (json: response.json(), text: response.text)
HttpError == [kind |-> "error", json |-> JNull, text |-> <<>>]
HttpStatus == [kind |-> "status", json |-> JNull, text |-> <<>>]
HttpJson(j) == [kind |-> "json", json |-> j, text |-> <<>>]
HttpMalformed == [kind |-> "malformed", json |-> JNull, text |-> <<>>]
HttpText(s) == [kind |-> "text", json |-> JNull, text |-> s]

\* session.get + raise_for_status raise requests.RequestException
RequestFailed(resp) == resp.kind \in {"error", "status"}

\* tag_name[1:] when it starts with 'v'
StripV(s) == IF s # <<>> /\ s[1] = "v" THEN Tail(s) ELSE s

\* latest_version = max(matches, key=...)
latest_version(matches) == MaxByKey(Head(matches), Tail(matches))

\* _resolve_generic_latest without the except clause of lines 184-188
_resolve_generic_latest_raising(listing) ==
    IF RequestFailed(listing) THEN Raised("RequestException")
    ELSE LET matches == findall(listing.text)
         IN IF Len(matches) = 0 THEN Returned(Unknown)
            ELSE Returned(latest_version(matches))

\* VersionResolver._resolve_generic_latest, given the answer of its request
_resolve_generic_latest(listing) ==
    IF RequestFailed(listing) THEN Returned(Unknown)
    ELSE LET matches == findall(listing.text)
         IN IF Len(matches) = 0 THEN Returned(Unknown)
            ELSE Returned(latest_version(matches))

\* a JSON object is a sequence of <<key, value>> pairs
HasKey(obj, k) == \E i \in 1..Len(obj.fields) : obj.fields[i][1] = k
GetKey(obj, k) == obj.fields[CHOOSE i \in 1..Len(obj.fields) : obj.fields[i][1] = k][2]

\* urlparse(source_url): the host and the path segments between slashes
Url(host, segs) == [netloc |-> host, segs |-> segs]

\* parsed_url.path.strip('/').split('/'): an empty path splits into ['']
path_parts(url) == IF url.segs = <<>> THEN <<"">> ELSE url.segs

\* 'github.com' in host, 'gitlab.com' in host
IsGithubHost(host) == host \in {"github.com", "api.github.com"}
IsGitlabHost(host) == host \in {"gitlab.com"}

\* response.json() on a body that is not JSON: requests raises its JSONDecodeError,
\* a RequestException from requests 2.27 on and a plain ValueError before
JsonFailure(http, fallback) ==
    IF http.jsonErrorIsRequestException THEN fallback ELSE Raised("JSONDecodeError")

\* VersionResolver._resolve_github_latest
_resolve_github_latest(url, http) ==
    LET generic == _resolve_generic_latest(http.listing)
        api == http.api
    IN IF Len(path_parts(url)) >= 2
       THEN IF RequestFailed(api) THEN generic
            ELSE IF api.kind = "malformed" THEN JsonFailure(http, generic)
            ELSE IF api.json.t # "obj" THEN Raised("AttributeError")
            ELSE LET tag_name == IF HasKey(api.json, "tag_name")
                                 THEN GetKey(api.json, "tag_name")
                                 ELSE JStr(<<>>)
                 IN IF tag_name.t # "str" THEN Raised("AttributeError")
                    ELSE Returned(StripV(tag_name.s))
       ELSE generic

\* VersionResolver._resolve_gitlab_latest
_resolve_gitlab_latest(url, http) ==
    LET generic == _resolve_generic_latest(http.listing)
        api == http.api
    IN IF Len(path_parts(url)) >= 2
       THEN IF RequestFailed(api) THEN generic
            ELSE IF api.kind = "malformed" THEN JsonFailure(http, generic)
            ELSE LET tags == api.json
                 IN IF ~Truthy(tags) THEN generic
                    ELSE IF tags.t = "obj" THEN Raised("KeyError")
                    ELSE IF tags.t # "arr" THEN Raised("TypeError")
                    ELSE LET first == tags.items[1]
                         IN IF first.t # "obj" THEN Raised("TypeError")
                            ELSE IF ~HasKey(first, "name") THEN Raised("KeyError")
                            ELSE IF GetKey(first, "name").t # "str"
                                 THEN Raised("AttributeError")
                            ELSE Returned(StripV(GetKey(first, "name").s))
       ELSE generic

\* VersionResolver.resolve_latest_version
resolve_latest_version(url, http) ==
    IF IsGithubHost(url.netloc) THEN _resolve_github_latest(url, http)
    ELSE IF IsGitlabHost(url.netloc) THEN _resolve_gitlab_latest(url, http)
    ELSE _resolve_generic_latest(http.listing)

(***************************************************************************)
(* FlagTranslator                                                          *)
(***************************************************************************)
\* self.flag_mappings
flag_mappings ==
    [meson |->
        [nls |-> "-Dnls=enabled",
         shared |-> "-Ddefault_library=shared",
         lto |-> "-Db_lto=true",
         debug |-> "-Dbuildtype=debug",
         release |-> "-Dbuildtype=release",
         optimizations |-> "-Db_lto=true -Db_pgo=generate"],
     cmake |->
        [nls |-> "-DENABLE_NLS=ON",
         shared |-> "-DBUILD_SHARED_LIBS=ON",
         lto |-> "-DCMAKE_INTERPROCEDURAL_OPTIMIZATION=ON",
         debug |-> "-DCMAKE_BUILD_TYPE=Debug",
         release |-> "-DCMAKE_BUILD_TYPE=Release",
         optimizations |-> "-DCMAKE_INTERPROCEDURAL_OPTIMIZATION=ON"],
     autotools |->
        [nls |-> "--enable-nls",
         shared |-> "--enable-shared --disable-static",
         lto |-> "--enable-lto",
         debug |-> "--enable-debug",
         release |-> "--disable-debug",
         optimizations |-> "--enable-lto --enable-optimizations"],
     cargo |->
        [nls |-> "--features=nls",
         shared |-> "--features=shared",
         lto |-> "--release",
         debug |-> "--debug",
         release |-> "--release",
         optimizations |-> "--release"],
     python_pep517 |->
        [nls |-> "--config-settings=\"--build-option=--with-nls\"",
         shared |-> "--config-settings=\"--build-option=--enable-shared\"",
         lto |-> "--config-settings=\"--global-option=--enable-lto\"",
         debug |-> "--config-settings=\"--build-option=--debug\"",
         release |-> "--config-settings=\"--build-option=--release\"",
         optimizations |-> "--config-settings=\"--global-option=--enable-optimizations\""]]

\* the key of flag_mappings a build-system name selects ('python-pep517' is
\* written python_pep517 as a record field)
MappingKey(system) == IF system = "python-pep517" THEN "python_pep517" ELSE system

\* system in self.flag_mappings
KnownSystem(system) ==
    system \in {"meson", "cmake", "autotools", "cargo", "python-pep517"}

\* the for loop of translate_flags, stopping at the first unsupported flag
RECURSIVE TranslateLoop_break(_, _, _)
TranslateLoop_break(flag_map, use_flags, translated_flags) ==
    IF use_flags = <<>> THEN translated_flags
    ELSE IF Head(use_flags) \in DOMAIN flag_map
         THEN TranslateLoop_break(flag_map, Tail(use_flags),
                                  Append(translated_flags, flag_map[Head(use_flags)]))
         ELSE translated_flags

\* the for loop of translate_flags
RECURSIVE TranslateLoop(_, _, _)
TranslateLoop(flag_map, use_flags, translated_flags) ==
    IF use_flags = <<>> THEN translated_flags
    ELSE IF Head(use_flags) \in DOMAIN flag_map
         THEN TranslateLoop(flag_map, Tail(use_flags),
                            Append(translated_flags, flag_map[Head(use_flags)]))
         ELSE TranslateLoop(flag_map, Tail(use_flags), translated_flags)

\* FlagTranslator.translate_flags
translate_flags(build_system, use_flags) ==
    IF KnownSystem(build_system)
    THEN TranslateLoop(flag_mappings[MappingKey(build_system)], use_flags, <<>>)
    ELSE <<>>

(***************************************************************************)
(* JSONParser                                                              *)
(***************************************************************************)
\* Strings of a manifest are sequences of tokens: a token is one character
\* where characters matter (versions) and one opaque word elsewhere (names,
\* template identifiers, the parts of a URL).  The empty string is <<>>.
\* A token sequence of one word, read as that word:
Word(j) == IF Len(j.s) = 1 THEN j.s[1] ELSE ""

\* obj[k] = v on a dict (insertion order kept, an existing key keeps its place)
SetKey(obj, k, v) ==
    IF HasKey(obj, k)
    THEN [obj EXCEPT !.fields = [i \in 1..Len(obj.fields) |->
                                    IF obj.fields[i][1] = k THEN <<k, v>> ELSE obj.fields[i]]]
    ELSE [obj EXCEPT !.fields = Append(obj.fields, <<k, v>>)]

\* `k in x` for a key word k: "yes", "no", or "raise" (TypeError)
PyIn(k, x) ==
    CASE x.t = "obj" -> IF HasKey(x, k) THEN "yes" ELSE "no"
      [] x.t = "arr" -> IF \E i \in 1..Len(x.items) : x.items[i] = JStr(<<k>>)
                        THEN "yes" ELSE "no"
      [] x.t = "str" -> IF \E i \in 1..Len(x.s) : x.s[i] = k THEN "yes" ELSE "no"
      [] OTHER -> "raise"

\* x[k] for a key word k can be evaluated (no KeyError, no TypeError)
CanIndex(x, k) == x.t = "obj" /\ HasKey(x, k)

\* isinstance(x, str)
IsStr(x) == x.t = "str"

\* a manifest file: its text does not parse, or it holds a JSON document
FileMalformed == [parses |-> FALSE, data |-> JNull]
FileJson(j) == [parses |-> TRUE, data |-> j]

required_fields == <<"name", "version", "architecture", "source">>

\* the check of build.dependencies
DependenciesOk(build_info) ==
    IF HasKey(build_info, "dependencies")
    THEN LET deps == GetKey(build_info, "dependencies")
         IN /\ deps.t = "arr"
            /\ \A i \in 1..Len(deps.items) : IsStr(deps.items[i])
    ELSE TRUE

\* _validate_json_structure without the check of the version's type
_validate_json_structure_noversion(file) ==
    /\ file.parses
    /\ PyIn("package", file.data) = "yes"
    /\ CanIndex(file.data, "package")
    /\ LET package_info == GetKey(file.data, "package")
       IN /\ \A i \in 1..Len(required_fields) : PyIn(required_fields[i], package_info) = "yes"
          /\ \A i \in 1..Len(required_fields) : CanIndex(package_info, required_fields[i])
          /\ IsStr(GetKey(package_info, "name"))
          /\ IsStr(GetKey(package_info, "architecture"))
          /\ IsStr(GetKey(package_info, "source"))
    /\ PyIn("build", file.data) = "yes"
    /\ LET build_info == GetKey(file.data, "build")
       IN /\ PyIn("template", build_info) = "yes"
          /\ CanIndex(build_info, "template")
          /\ IsStr(GetKey(build_info, "template"))
          /\ DependenciesOk(build_info)

\* JSONParser._validate_json_structure: every exception inside it (a document
\* that does not parse, a section that is not a dict) is caught and gives False
_validate_json_structure(file) ==
    /\ file.parses
    /\ PyIn("package", file.data) = "yes"
    /\ CanIndex(file.data, "package")
    /\ LET package_info == GetKey(file.data, "package")
       IN /\ \A i \in 1..Len(required_fields) : PyIn(required_fields[i], package_info) = "yes"
          /\ \A i \in 1..Len(required_fields) : CanIndex(package_info, required_fields[i])
          /\ IsStr(GetKey(package_info, "name"))
          /\ IsStr(GetKey(package_info, "version"))
          /\ IsStr(GetKey(package_info, "architecture"))
          /\ IsStr(GetKey(package_info, "source"))
    /\ PyIn("build", file.data) = "yes"
    /\ LET build_info == GetKey(file.data, "build")
       IN /\ PyIn("template", build_info) = "yes"
          /\ CanIndex(build_info, "template")
          /\ IsStr(GetKey(build_info, "template"))
          /\ DependenciesOk(build_info)

\* urlparse(source): a source string is <<scheme, host, segment, ...>>
urlparse(source) ==
    IF Len(source) < 2 THEN Url("", <<>>)
    ELSE Url(source[2], SubSeq(source, 3, Len(source)))

Latest == <<"l", "a", "t", "e", "s", "t">>

\* the flags translate_flags iterates over for build_info['use']: the elements
\* of a list, the keys of a dict, the characters of a string (no flag name is
\* one character long, so they translate to nothing); iterating None or a
\* number raises TypeError, and so does looking up an unhashable element
UseFlags(use, build_system) ==
    IF ~KnownSystem(build_system) THEN Returned(<<>>)
    ELSE CASE use.t = "arr" ->
                IF \E i \in 1..Len(use.items) : use.items[i].t \in {"arr", "obj"}
                THEN Raised("TypeError")
                ELSE Returned([i \in 1..Len(use.items) |-> Word(use.items[i])])
           [] use.t = "obj" -> Returned([i \in 1..Len(use.fields) |-> use.fields[i][1]])
           [] use.t = "str" -> Returned(<<>>)  \* single characters: none is a key
           [] OTHER -> Raised("TypeError")

\* a list of words as a JSON array of strings
WordList(ws) == JArr([i \in 1..Len(ws) |-> JStr(<<ws[i]>>)])

\* the package record: {'package': package_info, 'build': build_info}
Record(package_info, build_info) == [package |-> package_info, build |-> build_info]
NoRecord == Record(JNull, JNull)

\* a result carrying a package record
ReturnedRecord(r) == [raised |-> FALSE, value |-> r, exc |-> ""]
RaisedRecord(e) == [raised |-> TRUE, value |-> NoRecord, exc |-> e]

\* parse_package reads the version and, for "latest", asks the resolver
NeedsResolve(file) == GetKey(GetKey(file.data, "package"), "version").s = Latest
ResolveVersion(file, http) ==
    IF NeedsResolve(file)
    THEN resolve_latest_version(urlparse(GetKey(GetKey(file.data, "package"), "source").s), http)
    ELSE Returned(GetKey(GetKey(file.data, "package"), "version").s)

\* the use flags of the build section, translated (json_parser.py:190-198)
TranslatedFlags(build_info) ==
    IF HasKey(build_info, "use") /\ HasKey(build_info, "template")
    THEN UseFlags(GetKey(build_info, "use"), Word(GetKey(build_info, "template")))
    ELSE Returned(<<>>)

WithTranslatedFlags(build_info, flags) ==
    IF HasKey(build_info, "use") /\ HasKey(build_info, "template")
    THEN SetKey(build_info, "translated_flags",
                WordList(translate_flags(Word(GetKey(build_info, "template")), flags.value)))
    ELSE build_info

\* parse_package once the version is known: resolved is the answer of the
\* resolver (or the version as written)
ParseResolved(file, resolved, flags) ==
    IF resolved.raised THEN RaisedRecord(resolved.exc)
    ELSE IF flags.raised THEN RaisedRecord(flags.exc)
    ELSE ReturnedRecord(Record(SetKey(GetKey(file.data, "package"), "version",
                                      JStr(resolved.value)),
                               WithTranslatedFlags(GetKey(file.data, "build"), flags)))

\* JSONParser.parse_package on a file that passed _validate_json_structure
parse_package(file, http) ==
    ParseResolved(file, ResolveVersion(file, http), TranslatedFlags(GetKey(file.data, "build")))

(***************************************************************************)
(* SourceDownloader, BuildManager, PGPSigner: the results main can see     *)
(***************************************************************************)
\* source_url.endswith(".git")
EndsWithGit(source) == source # <<>> /\ source[Len(source)] = "repo.git"

\* download_source: _download_git_repo returns True, returns False
\* (CalledProcessError) or raises (git is not installed: FileNotFoundError);
\* _download_archive catches every exception and returns True or False
DownloadOutcomes(source) ==
    IF EndsWithGit(source) THEN {"True", "False", "raise"} ELSE {"True", "False"}

\* get_template answering a class for every name
SupportedTemplate_any(template_name) == TRUE

\* BuildManager.get_template returns a class (not None)
SupportedTemplate(template_name) ==
    template_name \in {"meson", "cmake", "autotools", "cargo", "python-pep517", "gradle"}

\* what a stage of a template can answer: True, False (CalledProcessError, or
\* no wheel found), or an exception that the stage does not catch (the build
\* tool is not installed, target/release does not exist)
StageOutcomes(template_name, stage) ==
    CASE template_name \in {"cargo", "gradle"} /\ stage = "setup" -> {"True"}
      [] template_name = "cargo" /\ stage = "install" -> {"True", "raise"}
      [] template_name = "gradle" /\ stage = "install" -> {"True"}
      [] OTHER -> {"True", "False", "raise"}

\* the words of a JSON array of strings
Words(arr) == [i \in 1..Len(arr.items) |-> Word(arr.items[i])]

\* build_package, lines 553-560: the flags handed to setup and the record
\* afterwards (extend() on the list of the record changes the record)
\* (extra_flags of a manifest of the model is absent, a list or a string)
SetupFlags(record) ==
    LET build_info == record.build
        has_extra == HasKey(build_info, "extra_flags")
        given == IF has_extra THEN GetKey(build_info, "extra_flags") ELSE JArr(<<>>)
        extra_flags == IF given.t = "str" THEN <<Word(given)>> ELSE Words(given)
        translated == IF HasKey(build_info, "translated_flags")
                      THEN Words(GetKey(build_info, "translated_flags"))
                      ELSE <<>>
        flags == extra_flags \o translated
    IN [flags |-> flags,
        record |-> IF has_extra /\ given.t = "arr"
                   THEN [record EXCEPT !.build = SetKey(build_info, "extra_flags", WordList(flags))]
                   ELSE record]

\* build_package, lines 563-573, with the result of compile ignored
AfterStage_ignore(stage, result) ==
    CASE stage = "setup" -> IF result = "True" THEN "SetupDone" ELSE "Failed"
      [] stage = "compile" -> "CompileDone"
      [] stage = "install" -> IF result = "True" THEN "InstallDone" ELSE "Failed"

\* build_package with compile not invoked: setup leads straight to install
AfterStage_skip(stage, result) ==
    IF result # "True" THEN "Failed"
    ELSE CASE stage = "setup" -> "CompileDone"
           [] stage = "compile" -> "CompileDone"
           [] stage = "install" -> "InstallDone"

\* build_package, lines 563-573: the build state after a stage has answered
AfterStage(stage, result) ==
    IF result # "True" THEN "Failed"
    ELSE CASE stage = "setup" -> "SetupDone"
           [] stage = "compile" -> "CompileDone"
           [] stage = "install" -> "InstallDone"

\* the signing binary on the host: sq signs, sq exits non-zero, sq is absent
SqStates == {"ok", "fails", "missing"}

\* PGPSigner.sign_package_with_sq: True on exit code 0; FileNotFoundError (sq
\* absent) and every other exception are caught and give False
sign_package_with_sq(sq) == IF sq = "ok" THEN "True" ELSE "False"

\* sign_package_with_sq catches every exception: it returns True or False
SignOutcomes == {sign_package_with_sq(sq) : sq \in SqStates}

(***************************************************************************)
(* APGPackageBuilder                                                       *)
(***************************************************************************)
\* Paths below data/, relative to it; "" is data/ itself
Paths == {"usr", "usr/bin", "usr/bin/app", "usr/bin/sh", "etc", "etc/app.conf"}

Parent(p) ==
    CASE p = "usr/bin" -> "usr"
      [] p = "usr/bin/app" -> "usr/bin"
      [] p = "usr/bin/sh" -> "usr/bin"
      [] p = "etc/app.conf" -> "etc"
      [] OTHER -> ""

\* p and the directories above it, below data/
RECURSIVE Chain(_)
Chain(p) == IF p = "" THEN {} ELSE {p} \cup Chain(Parent(p))

\* what a path holds: nothing, a directory, a regular file with its bytes, or
\* a symbolic link (target: what the link resolves to on the build host,
\* "file", "dir" or "dangling"; content: the bytes read through it)
NoNode == [kind |-> "none", content |-> "", target |-> ""]
DirNode == [kind |-> "dir", content |-> "", target |-> ""]
FileNode(bytes) == [kind |-> "file", content |-> bytes, target |-> ""]
LinkNode(target, bytes) == [kind |-> "link", content |-> bytes, target |-> target]

\* a directory tree: whether its root exists, and what every path holds
NoTree == [exists |-> FALSE, nodes |-> [p \in Paths |-> NoNode]]
EmptyTree == [exists |-> TRUE, nodes |-> [p \in Paths |-> NoNode]]

\* Path.is_dir() and Path.is_file(): both follow symbolic links
IsDir(n) == n.kind = "dir" \/ (n.kind = "link" /\ n.target = "dir")
is_file(n) == n.kind = "file" \/ (n.kind = "link" /\ n.target = "file")

\* zlib.crc32(content) & 0xffffffff, formatted {:08x}, of the file contents of
\* the model: b"", b"a", b"b"
crc32(bytes) ==
    CASE bytes = "" -> "00000000"
      [] bytes = "a" -> "e8b7be43"
      [] bytes = "b" -> "71beeff9"

\* a step on the tree: the tree afterwards, or the exception raised
TreeOk(tree) == [raised |-> FALSE, tree |-> tree, exc |-> ""]
TreeRaised(tree, e) == [raised |-> TRUE, tree |-> tree, exc |-> e]

\* path.mkdir(parents=True, exist_ok=True) for the directory p of data/
\* (p = "": data/ itself).  A regular file or a link that is no directory on
\* the way raises; below a link to a directory everything happens outside data/
mkdir_p(tree, p) ==
    LET chain == Chain(p)
        blocked == \E q \in chain : tree.nodes[q].kind \in {"file", "link"} /\ ~IsDir(tree.nodes[q])
        outside == \E q \in chain : tree.nodes[q].kind = "link"
    IN IF blocked THEN TreeRaised(tree, "FileExistsError")
       ELSE IF outside THEN TreeOk(tree)
       ELSE TreeOk([exists |-> TRUE,
                    nodes |-> [q \in Paths |->
                                 IF q \in chain /\ tree.nodes[q].kind = "none"
                                 THEN DirNode ELSE tree.nodes[q]]])

\* the 'directories' loop of _apply_filesystem_config
RECURSIVE ApplyDirectories(_, _)
ApplyDirectories(tree, directories) ==
    IF directories = <<>> THEN TreeOk(tree)
    ELSE LET made == mkdir_p(tree, Head(directories).path)
         IN IF made.raised THEN made
            ELSE ApplyDirectories(made.tree, Tail(directories))

\* dest / source.name for the files the model copies into a directory
Join(dir, name) ==
    CASE dir = "etc" /\ name = "app.conf" -> "etc/app.conf"
      [] dir = "usr/bin" /\ name = "app" -> "usr/bin/app"
      [] dir = "usr/bin" /\ name = "sh" -> "usr/bin/sh"
      [] OTHER -> ""

\* shutil.copy2(source_path, dest_path) for a regular source file: into the
\* directory when dest is one, through the link when dest is one (the bytes
\* then land outside data/), else onto dest
copy2(tree, entry) ==
    LET dest == entry.destination
        node == tree.nodes[dest]
    IN IF node.kind = "link" THEN TreeOk(tree)
       ELSE IF node.kind = "dir"
       THEN LET inner == Join(dest, entry.name)
            IN IF inner = "" THEN TreeOk(tree)
               ELSE IF tree.nodes[inner].kind = "dir" THEN TreeRaised(tree, "IsADirectoryError")
               ELSE IF tree.nodes[inner].kind = "link" THEN TreeOk(tree)
               ELSE TreeOk([tree EXCEPT !.nodes[inner] = FileNode(entry.content)])
       ELSE TreeOk([tree EXCEPT !.nodes[dest] = FileNode(entry.content)])

\* the 'files' loop of _apply_filesystem_config
RECURSIVE ApplyFiles(_, _)
ApplyFiles(tree, files) ==
    IF files = <<>> THEN TreeOk(tree)
    ELSE LET entry == Head(files)
             made == mkdir_p(tree, Parent(entry.destination))
             outside == \E q \in Chain(Parent(entry.destination)) : made.tree.nodes[q].kind = "link"
             copied == IF entry.exists /\ ~outside THEN copy2(made.tree, entry) ELSE made
         IN IF made.raised THEN made
            ELSE IF copied.raised THEN copied
            ELSE ApplyFiles(copied.tree, Tail(files))

\* the 'symlinks' loop of _apply_filesystem_config
RECURSIVE ApplySymlinks(_, _)
ApplySymlinks(tree, symlinks) ==
    IF symlinks = <<>> THEN TreeOk(tree)
    ELSE LET entry == Head(symlinks)
             dest == entry.destination
             made == mkdir_p(tree, Parent(dest))
             outside == \E q \in Chain(Parent(dest)) : made.tree.nodes[q].kind = "link"
         IN IF made.raised THEN made
            ELSE IF outside THEN ApplySymlinks(made.tree, Tail(symlinks))
            ELSE IF made.tree.nodes[dest].kind # "none"
                 THEN TreeRaised(made.tree, "FileExistsError")
            ELSE ApplySymlinks([made.tree EXCEPT !.nodes[dest] =
                                    LinkNode(entry.target, entry.content)],
                               Tail(symlinks))

\* a filesystem overlay: the document of the YAML file, or nothing when the
\* file does not exist or is empty (a falsy config is not applied)
NoOverlay == [present |-> FALSE, directories |-> <<>>, files |-> <<>>, symlinks |-> <<>>]
Overlay(directories, files, symlinks) ==
    [present |-> TRUE, directories |-> directories, files |-> files, symlinks |-> symlinks]

\* APGPackageBuilder._apply_filesystem_config: directories, then files, then
\* symbolic links
_apply_filesystem_config(data_dir, filesystem_config) ==
    LET dirs == ApplyDirectories(data_dir, filesystem_config.directories)
        files == IF dirs.raised THEN dirs ELSE ApplyFiles(dirs.tree, filesystem_config.files)
    IN IF files.raised THEN files
       ELSE ApplySymlinks(files.tree, filesystem_config.symlinks)

\* data_dir.rglob('*'): for every directory, in pre-order, its entries; the
\* order of the entries of one directory is the operating system's
WalkOrders ==
    {<<"usr", "etc", "usr/bin", "usr/bin/app", "usr/bin/sh", "etc/app.conf">>,
     <<"usr", "etc", "usr/bin", "usr/bin/sh", "usr/bin/app", "etc/app.conf">>,
     <<"etc", "usr", "etc/app.conf", "usr/bin", "usr/bin/app", "usr/bin/sh">>,
     <<"etc", "usr", "etc/app.conf", "usr/bin", "usr/bin/sh", "usr/bin/app">>}

\* one line of crc32sums: "{:08x}  {}".format(crc32_checksum, rel_path)
Line(crc, rel_path) == [crc |-> crc, path |-> rel_path]

\* the paths rglob yields: those that exist below data/ (a link to a
\* directory is yielded, not entered)
Walk(tree, walk) == SelectSeq(walk, LAMBDA p : tree.nodes[p].kind # "none")

\* _generate_crc32_checksums without the recursion: glob('*') instead of rglob('*')
_generate_crc32_checksums_toplevel(data_dir, walk) ==
    IF data_dir.exists
    THEN LET found == SelectSeq(Walk(data_dir, walk),
                                LAMBDA p : Parent(p) = "" /\ is_file(data_dir.nodes[p]))
         IN [i \in 1..Len(found) |-> Line(crc32(data_dir.nodes[found[i]].content), found[i])]
    ELSE <<>>

\* APGPackageBuilder._generate_crc32_checksums: the lines written to crc32sums
_generate_crc32_checksums(data_dir, walk) ==
    IF data_dir.exists
    THEN LET found == SelectSeq(Walk(data_dir, walk), LAMBDA p : is_file(data_dir.nodes[p]))
         IN [i \in 1..Len(found) |-> Line(crc32(data_dir.nodes[found[i]].content), found[i])]
    ELSE <<>>

\* a + b without set(): duplicates are kept
Dedup_keep(items, seen) == seen \o items

\* list(set(a + b)): the elements of both lists, each once (the order of the
\* Python result is unspecified; here first occurrences, in order)
RECURSIVE Dedup(_, _)
Dedup(items, seen) ==
    IF items = <<>> THEN seen
    ELSE IF \E i \in 1..Len(seen) : seen[i] = Head(items)
         THEN Dedup(Tail(items), seen)
         ELSE Dedup(Tail(items), Append(seen, Head(items)))

\* the loop of _combine_metadata with the overlay's value taking priority
RECURSIVE MergeKeys_overlay(_, _)
MergeKeys_overlay(package, pairs) ==
    IF pairs = <<>> THEN package
    ELSE MergeKeys_overlay(SetKey(package, Head(pairs)[1], Head(pairs)[2]), Tail(pairs))

\* the loop of _combine_metadata over yaml_metadata['package'].items()
RECURSIVE MergeKeys(_, _)
MergeKeys(package, pairs) ==
    IF pairs = <<>> THEN package
    ELSE LET key == Head(pairs)[1]
             value == Head(pairs)[2]
             merged ==
                IF HasKey(package, key)
                THEN IF GetKey(package, key).t = "arr" /\ value.t = "arr"
                     THEN SetKey(package, key,
                                 JArr(Dedup(GetKey(package, key).items \o value.items, <<>>)))
                     ELSE package
                ELSE SetKey(package, key, value)
         IN MergeKeys(merged, Tail(pairs))

\* APGPackageBuilder._combine_metadata: combined is a shallow copy, so
\* combined['package'] is the 'package' dict of the record itself.
\* yaml_metadata: a dict, or None (JNull) for an empty YAML file
_combine_metadata(json_metadata, yaml_metadata) ==
    IF PyIn("package", yaml_metadata) = "raise" THEN RaisedRecord("TypeError")
    ELSE IF PyIn("package", yaml_metadata) = "no" THEN ReturnedRecord(json_metadata)
    ELSE IF GetKey(yaml_metadata, "package").t # "obj" THEN RaisedRecord("AttributeError")
    ELSE ReturnedRecord([json_metadata EXCEPT !.package =
                            MergeKeys(json_metadata.package,
                                      GetKey(yaml_metadata, "package").fields)])

\* a file name in the output directory: <stem>.<ext>
FileName(stem, ext) == [stem |-> stem, ext |-> ext]

\* "{}-{}-{}.apg".format(package_name, version, arch)
ApgName(record) ==
    FileName(GetKey(record.package, "name").s \o <<"-">> \o
             GetKey(record.package, "version").s \o <<"-">> \o
             GetKey(record.package, "architecture").s, "apg")

\* Path.with_suffix
with_suffix(name, ext) == FileName(name.stem, ext)

\* what a produced archive holds: its top-level entries, the tree below
\* data/, the document of metadata.json and the lines of crc32sums
Archive(entries, data, metadata, lines) ==
    [entries |-> entries, data |-> data, metadata |-> metadata, crc32sums |-> lines]
NoArchive == Archive({}, NoTree, NoRecord, <<>>)

\* the result of create_apg_package: the path returned or the exception
\* raised, the archive written, the files added to the output directory and
\* the package record as the call leaves it
Packaged(path, archive, added, record) ==
    [raised |-> FALSE, exc |-> "", path |-> path, archive |-> archive, added |-> added,
     record |-> record]
PackagingRaised(e, path, added, record) ==
    [raised |-> TRUE, exc |-> e, path |-> path, archive |-> NoArchive, added |-> added,
     record |-> record]

\* APGPackageBuilder._create_tar_zst: zstd is not installed (RuntimeError),
\* or the tar is written and zstd -19 fails (CalledProcessError) or succeeds;
\* zstd keeps its input file, and tar.add() takes every entry of the
\* temporary directory
_create_tar_zst(temp, output_path, zstd, record) ==
    LET tar_path == with_suffix(output_path, "tar")
        entries == {"metadata.json", "crc32sums"} \cup (IF temp.data.exists THEN {"data"} ELSE {})
    IN CASE zstd = "missing" -> PackagingRaised("RuntimeError", output_path, {}, record)
         [] zstd = "fails" -> PackagingRaised("CalledProcessError", output_path, {tar_path}, record)
         [] zstd = "ok" -> Packaged(output_path,
                                    Archive(entries, temp.data, temp.metadata, temp.crc32sums),
                                    {tar_path, output_path}, record)

\* create_apg_package with the checksums taken before the overlay is applied
create_apg_package_early(package_info, install, fs, meta, env) ==
    LET filepath == ApgName(package_info)
        copied == IF install.exists THEN install ELSE NoTree
        applied == IF fs.present THEN _apply_filesystem_config(copied, fs) ELSE TreeOk(copied)
        combined == _combine_metadata(package_info, meta)
        lines == _generate_crc32_checksums(copied, env.walk)
    IN IF applied.raised THEN PackagingRaised(applied.exc, filepath, {}, package_info)
       ELSE IF combined.raised THEN PackagingRaised(combined.exc, filepath, {}, package_info)
       ELSE _create_tar_zst([data |-> applied.tree, metadata |-> combined.value,
                             crc32sums |-> lines],
                            filepath, env.zstd, combined.value)

\* APGPackageBuilder.create_apg_package
\*   install: the tree at install_dir;  fs, meta: the two YAML overlays;
\*   env: [zstd: the compressor on the host, walk: the order of rglob]
create_apg_package(package_info, install, fs, meta, env) ==
    LET filepath == ApgName(package_info)
        copied == IF install.exists THEN install ELSE NoTree
        applied == IF fs.present THEN _apply_filesystem_config(copied, fs) ELSE TreeOk(copied)
        combined == _combine_metadata(package_info, meta)
        lines == _generate_crc32_checksums(applied.tree, env.walk)
    IN IF applied.raised THEN PackagingRaised(applied.exc, filepath, {}, package_info)
       ELSE IF combined.raised THEN PackagingRaised(combined.exc, filepath, {}, package_info)
       ELSE _create_tar_zst([data |-> applied.tree, metadata |-> combined.value,
                             crc32sums |-> lines],
                            filepath, env.zstd, combined.value)

(***************************************************************************)
(* Inputs of the resolver                                                  *)
(***************************************************************************)
Hosts == {"github.com", "gitlab.com", "ftp.gnu.org"}
Urls == {Url(h, s) : h \in Hosts,
                     s \in {<<>>, <<"owner">>, <<"owner", "repo", "archive.tar.gz">>}}

\* tag strings a forge may report
Tag_v230 == <<"v", "2", ".", "3", ".", "0">>
Tag_230 == <<"2", ".", "3", ".", "0">>
Tag_v == <<"v">>
Tags == {Tag_v230, Tag_230, Tag_v, <<>>}

\* bodies of the latest-release / tag-listing API
ApiBodies ==
    {JObj(<< <<"tag_name", JStr(t)>> >>) : t \in Tags}
      \cup {JObj(<<>>), JObj(<< <<"tag_name", JNull>> >>), JObj(<< <<"tag_name", JNum>> >>),
            JObj(<< <<"message", JStr(<<"x">>)>> >>),
            JArr(<<>>), JNull, JNum, JStr(<<"x">>),
            JArr(<<JObj(<<>>)>>), JArr(<<JStr(<<"x">>)>>),
            JArr(<<JObj(<< <<"name", JNull>> >>)>>)}
      \cup {JArr(<<JObj(<< <<"name", JStr(t)>> >>), JObj(<< <<"name", JStr(Tag_230)>> >>)>>) :
                t \in Tags}
ApiAnswers == {HttpError, HttpStatus, HttpMalformed} \cup {HttpJson(b) : b \in ApiBodies}

\* pieces of a directory listing
V_1_9_0 == <<"1", ".", "9", ".", "0">>
V_1_10_0 == <<"1", ".", "1", "0", ".", "0">>
V_1_09_0 == <<"1", ".", "0", "9", ".", "0">>
ListingTokens == {V_1_9_0, V_1_10_0, V_1_09_0, <<" ">>, <<"-", "\n">>, <<"x">>}

RECURSIVE TokenSeqs(_)
TokenSeqs(n) ==
    IF n = 0 THEN {<<>>}
    ELSE LET shorter == TokenSeqs(n - 1)
         IN shorter \cup {Append(s, t) : s \in {x \in shorter : Len(x) = n - 1}, t \in ListingTokens}

Listings == {Concat(ts) : ts \in TokenSeqs(MaxTokens)}
ListingAnswers == {HttpError, HttpStatus} \cup {HttpText(l) : l \in Listings}

HttpEnvs == [api : ApiAnswers, listing : ListingAnswers, jsonErrorIsRequestException : BOOLEAN]

(***************************************************************************)
(* Inputs of the parser: manifest files                                    *)
(***************************************************************************)
Src_github == <<"https", "github.com", "owner", "repo", "archive.tar.gz">>
Src_gnu == <<"https", "ftp.gnu.org", "gnu", "lib.tar.gz">>
Src_git == <<"https", "gitlab.com", "owner", "repo.git">>
V_1_3_1 == <<"1", ".", "3", ".", "1">>

PackageSection(name, version, source) ==
    JObj(<< <<"name", JStr(<<name>>)>>, <<"version", JStr(version)>>,
            <<"architecture", JStr(<<"x86_64">>)>>, <<"source", JStr(source)>> >>)

Manifest(package, build) == FileJson(JObj(<< <<"package", package>>, <<"build", build>> >>))

BasePackage == PackageSection("zlib", V_1_3_1, Src_github)
BaseBuild ==
    JObj(<< <<"template", JStr(<<"meson">>)>>,
            <<"use", WordList(<<"shared", "static", "lto">>)>>,
            <<"extra_flags", WordList(<<"-Dfoo=1">>)>>,
            <<"dependencies", WordList(<<"cmake">>)>> >>)

M_meson == Manifest(BasePackage, BaseBuild)
M_cargo == Manifest(PackageSection("app", Latest, Src_github),
                    JObj(<< <<"template", JStr(<<"cargo">>)>> >>))
M_autotools == Manifest(PackageSection("lib", Latest, Src_gnu),
                        JObj(<< <<"template", JStr(<<"autotools">>)>>,
                                <<"use", WordList(<<"nls">>)>> >>))
M_scons == Manifest(PackageSection("tool", V_1_3_1, Src_git),
                    JObj(<< <<"template", JStr(<<"scons">>)>> >>))

ValidManifests == {M_meson, M_cargo, M_autotools, M_scons}

\* a dict without key k
DropKey(obj, k) ==
    [obj EXCEPT !.fields = SelectSeq(obj.fields, LAMBDA kv : kv[1] # k)]

\* manifests that break one structural rule each
MissingSection ==
    {FileJson(JObj(<< <<"build", BaseBuild>> >>)),
     FileJson(JObj(<< <<"package", BasePackage>> >>))}
MissingField ==
    {Manifest(DropKey(BasePackage, required_fields[i]), BaseBuild) : i \in 1..4}
      \cup {Manifest(BasePackage, DropKey(BaseBuild, "template"))}
NonStringField ==
    {Manifest(SetKey(BasePackage, required_fields[i], JNum), BaseBuild) : i \in 1..4}
      \cup {Manifest(BasePackage, SetKey(BaseBuild, "template", JNum))}
BadDependencies ==
    {Manifest(BasePackage, SetKey(BaseBuild, "dependencies", JStr(<<"cmake">>))),
     Manifest(BasePackage, SetKey(BaseBuild, "dependencies", JArr(<<JStr(<<"cmake">>), JNum>>)))}
\* a file that is not JSON, a document that is not an object, a section that
\* is not an object
NotAManifest ==
    {FileMalformed, FileJson(JArr(<<>>)),
     Manifest(JStr(<<"name", "version", "architecture", "source">>), BaseBuild)}

\* manifests whose name, architecture or source is the empty string
EmptyField ==
    {Manifest(SetKey(BasePackage, f, JStr(<<>>)), BaseBuild) : f \in {"name", "architecture", "source"}}

InvalidManifests ==
    MissingSection \cup MissingField \cup NonStringField \cup BadDependencies \cup NotAManifest

ManifestPool == ValidManifests \cup EmptyField \cup InvalidManifests

RECURSIVE Batches(_)
Batches(n) ==
    IF n = 0 THEN {<<>>}
    ELSE LET shorter == Batches(n - 1)
         IN shorter \cup {Append(b, m) : b \in {x \in shorter : Len(x) = n - 1}, m \in ManifestPool}

\* what the network answers while one manifest is parsed
Unreachable == [api |-> HttpError, listing |-> HttpError, jsonErrorIsRequestException |-> TRUE]
MainHttpEnvs ==
    {Unreachable,
     [Unreachable EXCEPT !.api = HttpJson(JObj(<< <<"tag_name", JStr(Tag_v230)>> >>))],
     [Unreachable EXCEPT !.api = HttpJson(JObj(<<>>))],
     [Unreachable EXCEPT !.api = HttpJson(JObj(<< <<"tag_name", JNull>> >>))],
     [Unreachable EXCEPT !.api = HttpStatus,
                         !.listing = HttpText(V_1_9_0 \o <<"-", "\n">> \o V_1_10_0)]}

(***************************************************************************)
(* Inputs of the archive builder                                           *)
(***************************************************************************)
\* install roots a build can leave behind
T_app == [exists |-> TRUE,
          nodes |-> [p \in Paths |->
                        CASE p \in {"usr", "usr/bin"} -> DirNode
                          [] p = "usr/bin/app" -> FileNode("a")
                          [] OTHER -> NoNode]]
T_app_conf == [T_app EXCEPT !.nodes["etc"] = DirNode, !.nodes["etc/app.conf"] = FileNode("a")]
InstallTrees == {NoTree, EmptyTree, T_app, T_app_conf}

\* entries of a filesystem overlay
DirEntry(path) == [path |-> path]
FileEntry(exists, name, bytes, destination) ==
    [exists |-> exists, name |-> name, content |-> bytes, destination |-> destination]
LinkEntry(target, bytes, destination) ==
    [target |-> target, content |-> bytes, destination |-> destination]

OverlayDirectories == {<<>>, <<DirEntry("etc")>>, <<DirEntry("usr/bin/app")>>}
OverlayFiles ==
    {<<>>,
     <<FileEntry(TRUE, "app.conf", "b", "etc/app.conf")>>,
     <<FileEntry(FALSE, "app.conf", "", "etc/app.conf")>>,
     <<FileEntry(TRUE, "app", "b", "usr/bin/app")>>,
     <<FileEntry(TRUE, "app.conf", "b", "etc")>>}
OverlaySymlinks ==
    {<<>>,
     <<LinkEntry("file", "b", "usr/bin/sh")>>,
     <<LinkEntry("dir", "", "usr/bin/sh")>>,
     <<LinkEntry("dangling", "", "usr/bin/sh")>>,
     <<LinkEntry("file", "b", "usr/bin/app")>>}
Overlays ==
    {NoOverlay} \cup {Overlay(d, f, l) : d \in OverlayDirectories, f \in OverlayFiles,
                                         l \in OverlaySymlinks}

\* metadata overlays: no file ({}), an empty file (None), a document
NoMetadata == JObj(<<>>)
MetadataOverlays ==
    {NoMetadata, JNull,
     JObj(<< <<"package", JObj(<< <<"version", JStr(<<"9">>)>>,
                                  <<"license", JStr(<<"MIT">>)>> >>)>> >>)}

ZstdStates == {"ok", "missing", "fails"}
PackagingEnvs == [zstd : ZstdStates, walk : WalkOrders]

PackagingInput(install, fs, meta, env) ==
    [install |-> install, fs |-> fs, meta |-> meta, env |-> env]

\* the cases main's packaging step is run on
DefaultEnv == [zstd |-> "ok", walk |-> <<"usr", "etc", "usr/bin", "usr/bin/app", "usr/bin/sh",
                                          "etc/app.conf">>]
MainPackagingInputs ==
    {PackagingInput(T_app, NoOverlay, NoMetadata, DefaultEnv),
     PackagingInput(NoTree, NoOverlay, NoMetadata, DefaultEnv),
     PackagingInput(T_app, NoOverlay, NoMetadata, [DefaultEnv EXCEPT !.zstd = "missing"]),
     PackagingInput(T_app, NoOverlay, NoMetadata, [DefaultEnv EXCEPT !.zstd = "fails"]),
     PackagingInput(T_app, Overlay(<<>>, <<>>, <<LinkEntry("file", "b", "usr/bin/app")>>),
                    NoMetadata, DefaultEnv)}

\* resolve_latest_version for every manifest of the pool that asks for
\* "latest", under every answer of the network
Resolvable == {f \in ManifestPool : _validate_json_structure(f) /\ NeedsResolve(f)}
ResolveAnswers == [f \in Resolvable, http \in MainHttpEnvs |-> ResolveVersion(f, http)]

\* the version parse_package stores: the answer of the resolver, or the
\* version as written
ResolvedVersion(file, http) ==
    IF NeedsResolve(file) THEN ResolveAnswers[file, http] ELSE ResolveVersion(file, http)

(***************************************************************************)
(* main                                                                    *)
(***************************************************************************)
\* an entry of the history: the operation, the package it is for, its result
\* ("True", "False", "raise"), the exception, the flags handed over (setup),
\* and the condition of the host: whether the network was unreachable
\* (resolve), whether the compressor (archive) or sq (sign) is installed
Event(op, pkg, res, exc, flags, net) ==
    [op |-> op, pkg |-> pkg, res |-> res, exc |-> exc, flags |-> flags, net |-> net]

\* the end of the loop body without the removal of the TemporaryDirectory
NextPackage_leak ==
    /\ scratch' = scratch
    /\ IF cur < Len(packages)
       THEN /\ pc' = "download"
            /\ cur' = cur + 1
            /\ outcome' = outcome
       ELSE /\ pc' = "done"
            /\ cur' = cur
            /\ outcome' = "completed"

\* `continue`, or the end of the loop body: the TemporaryDirectory is
\* removed and the loop goes to the next package, or main returns
NextPackage ==
    /\ scratch' = scratch \ {cur}
    /\ IF cur < Len(packages)
       THEN /\ pc' = "download"
            /\ cur' = cur + 1
            /\ outcome' = outcome
       ELSE /\ pc' = "done"
            /\ cur' = cur
            /\ outcome' = "completed"

\* an exception leaves the with block and the loop: `except Exception`, return
Abort ==
    /\ scratch' = scratch \ {cur}
    /\ pc' = "done"
    /\ outcome' = "unexpected_error"
    /\ UNCHANGED cur

\* except ValueError (also the JSONDecodeError of old requests) / except Exception
ErrorOutcome(exc) ==
    IF exc \in {"ValueError", "JSONDecodeError"} THEN "validation_error" ELSE "unexpected_error"

\* parse_all_packages: the directory is missing or holds no *.json file
ParseNothing ==
    /\ pc = "parse"
    /\ ~repodataExists \/ manifests = <<>>
    /\ pc' = "done"
    /\ outcome' = "validation_error"
    /\ UNCHANGED <<repodataExists, manifests, distExists, packages, cur, bstate, calls,
                   processed, output, scratch>>
    /\ UNCHANGED <<resolverVars, flagVars, archiveVars>>

\* the loop over json_files with packages.insert(0, ...) instead of append
ParseOne_prepend ==
    /\ pc = "parse"
    /\ repodataExists
    /\ Len(packages) < Len(manifests)
    /\ \E index \in {Len(packages) + 1} :
       \E valid \in {_validate_json_structure(manifests[index])} :
       \E http \in (IF valid /\ NeedsResolve(manifests[index])
                    THEN MainHttpEnvs ELSE {Unreachable}) :
       \E resolved \in {IF valid THEN ResolvedVersion(manifests[index], http)
                        ELSE Returned(<<>>)} :
       \E r \in {IF valid
                 THEN ParseResolved(manifests[index], resolved,
                                    TranslatedFlags(GetKey(manifests[index].data, "build")))
                 ELSE RaisedRecord("ValueError")} :
          /\ calls' = IF valid /\ NeedsResolve(manifests[index])
                      THEN Append(calls,
                                  Event("resolve", index,
                                        IF resolved.raised THEN "raise" ELSE "True",
                                        resolved.exc, <<>>,
                                        IF http = Unreachable THEN "unreachable"
                                        ELSE "reachable"))
                      ELSE calls
          /\ IF r.raised
             THEN /\ pc' = "done"
                  /\ outcome' = ErrorOutcome(r.exc)
                  /\ UNCHANGED <<packages, cur>>
             ELSE /\ packages' = <<r.value>> \o packages
                  /\ outcome' = outcome
                  /\ IF index = Len(manifests)
                     THEN pc' = "download" /\ cur' = 1
                     ELSE pc' = "parse" /\ cur' = cur
    /\ UNCHANGED <<repodataExists, manifests, distExists, bstate, processed, output, scratch>>
    /\ UNCHANGED <<resolverVars, flagVars, archiveVars>>

\* parse_all_packages: one file of json_files; after the last one main enters
\* its loop
ParseOne ==
    /\ pc = "parse"
    /\ repodataExists
    /\ Len(packages) < Len(manifests)
    /\ \E index \in {Len(packages) + 1} :
       \E valid \in {_validate_json_structure(manifests[index])} :
       \E http \in (IF valid /\ NeedsResolve(manifests[index])
                    THEN MainHttpEnvs ELSE {Unreachable}) :
       \E resolved \in {IF valid THEN ResolvedVersion(manifests[index], http)
                        ELSE Returned(<<>>)} :
       \E r \in {IF valid
                 THEN ParseResolved(manifests[index], resolved,
                                    TranslatedFlags(GetKey(manifests[index].data, "build")))
                 ELSE RaisedRecord("ValueError")} :
          /\ calls' = IF valid /\ NeedsResolve(manifests[index])
                      THEN Append(calls,
                                  Event("resolve", index,
                                        IF resolved.raised THEN "raise" ELSE "True",
                                        resolved.exc, <<>>,
                                        IF http = Unreachable THEN "unreachable"
                                        ELSE "reachable"))
                      ELSE calls
          /\ IF r.raised
             THEN /\ pc' = "done"
                  /\ outcome' = ErrorOutcome(r.exc)
                  /\ UNCHANGED <<packages, cur>>
             ELSE /\ packages' = Append(packages, r.value)
                  /\ outcome' = outcome
                  /\ IF index = Len(manifests)
                     THEN pc' = "download" /\ cur' = 1
                     ELSE pc' = "parse" /\ cur' = cur
    /\ UNCHANGED <<repodataExists, manifests, distExists, bstate, processed, output, scratch>>
    /\ UNCHANGED <<resolverVars, flagVars, archiveVars>>

\* the with block is entered, dist/output is created, the source is fetched
Download ==
    /\ pc = "download"
    /\ IF ~distExists
       THEN /\ Abort
            /\ UNCHANGED <<calls, bstate>>
       ELSE \E res \in DownloadOutcomes(GetKey(packages[cur].package, "source").s) :
              /\ calls' = Append(calls, Event("download", cur, res,
                                             IF res = "raise" THEN "FileNotFoundError" ELSE "",
                                             <<>>, ""))
              /\ CASE res = "True" -> /\ pc' = "setup"
                                      /\ scratch' = scratch \cup {cur}
                                      /\ bstate' = "NotStarted"  \* a new build
                                      /\ UNCHANGED <<cur, outcome>>
                   [] res = "False" -> NextPackage /\ UNCHANGED bstate
                   [] res = "raise" -> Abort /\ UNCHANGED bstate
    /\ UNCHANGED <<repodataExists, manifests, distExists, packages, processed, output>>
    /\ UNCHANGED <<resolverVars, flagVars, archiveVars>>

\* where main is after a build stage answered
StageDone(stage, res) ==
    /\ bstate' = AfterStage(stage, res)
    /\ IF res = "raise" THEN Abort
       ELSE CASE bstate' = "Failed" -> /\ scratch' = scratch \ {cur}
                                       /\ IF cur < Len(packages)
                                          THEN pc' = "download" /\ cur' = cur + 1
                                          ELSE pc' = "done" /\ cur' = cur
                                       /\ outcome' = IF cur < Len(packages) THEN outcome
                                                     ELSE "completed"
              [] bstate' = "SetupDone" -> pc' = "compile" /\ UNCHANGED <<cur, outcome, scratch>>
              [] bstate' = "CompileDone" -> pc' = "install" /\ UNCHANGED <<cur, outcome, scratch>>
              [] bstate' = "InstallDone" -> pc' = "package" /\ UNCHANGED <<cur, outcome, scratch>>

StageEvent(stage, res, flags) ==
    Event(stage, cur, res, IF res = "raise" THEN "FileNotFoundError" ELSE "", flags, "")

template_name(record) == Word(GetKey(record.build, "template"))

\* build_package up to the answer of setup
Setup ==
    /\ pc = "setup"
    /\ IF ~SupportedTemplate(template_name(packages[cur]))
       THEN /\ scratch' = scratch \ {cur}
            /\ IF cur < Len(packages)
               THEN pc' = "download" /\ cur' = cur + 1 /\ outcome' = outcome
               ELSE pc' = "done" /\ cur' = cur /\ outcome' = "completed"
            /\ bstate' = "Failed"
            /\ UNCHANGED <<calls, packages>>
       ELSE LET sf == SetupFlags(packages[cur])
            IN /\ packages' = [packages EXCEPT ![cur] = sf.record]
               /\ \E res \in StageOutcomes(template_name(packages[cur]), "setup") :
                     /\ calls' = Append(calls, StageEvent("setup", res, sf.flags))
                     /\ StageDone("setup", res)
    /\ UNCHANGED <<repodataExists, manifests, distExists, processed, output>>
    /\ UNCHANGED <<resolverVars, flagVars, archiveVars>>

\* build_package: compile
Compile ==
    /\ pc = "compile"
    /\ \E res \in StageOutcomes(template_name(packages[cur]), "compile") :
          /\ calls' = Append(calls, StageEvent("compile", res, <<>>))
          /\ StageDone("compile", res)
    /\ UNCHANGED <<repodataExists, manifests, distExists, packages, processed, output>>
    /\ UNCHANGED <<resolverVars, flagVars, archiveVars>>

\* build_package: install
Install ==
    /\ pc = "install"
    /\ \E res \in StageOutcomes(template_name(packages[cur]), "install") :
          /\ calls' = Append(calls, StageEvent("install", res, <<>>))
          /\ StageDone("install", res)
    /\ UNCHANGED <<repodataExists, manifests, distExists, packages, processed, output>>
    /\ UNCHANGED <<resolverVars, flagVars, archiveVars>>

\* the packaging step with a handler inside the loop: an exception of
\* create_apg_package skips the package
CreatePackage_continue ==
    /\ pc = "package"
    /\ \E in \in MainPackagingInputs :
          LET r == create_apg_package(packages[cur], in.install, in.fs, in.meta, in.env)
          IN /\ calls' = Append(calls, Event("archive", cur,
                                             IF r.raised THEN "raise" ELSE "True",
                                             r.exc, <<>>, in.env.zstd))
             /\ output' = output \cup r.added
             /\ packages' = [packages EXCEPT ![cur] = r.record]
             /\ IF r.raised THEN NextPackage
                ELSE pc' = "sign" /\ UNCHANGED <<cur, outcome, scratch>>
    /\ UNCHANGED <<repodataExists, manifests, distExists, bstate, processed>>
    /\ UNCHANGED <<resolverVars, flagVars, archiveVars>>

\* packager.create_apg_package(pkg, install_dir, output_dir, ...)
CreatePackage ==
    /\ pc = "package"
    /\ \E in \in MainPackagingInputs :
          LET r == create_apg_package(packages[cur], in.install, in.fs, in.meta, in.env)
          IN /\ calls' = Append(calls, Event("archive", cur,
                                             IF r.raised THEN "raise" ELSE "True",
                                             r.exc, <<>>, in.env.zstd))
             /\ output' = output \cup r.added
             /\ packages' = [packages EXCEPT ![cur] = r.record]
             /\ IF r.raised THEN Abort
                ELSE pc' = "sign" /\ UNCHANGED <<cur, outcome, scratch>>
    /\ UNCHANGED <<repodataExists, manifests, distExists, bstate, processed>>
    /\ UNCHANGED <<resolverVars, flagVars, archiveVars>>

\* the signing step with the success message logged whatever sq answered
Sign_reportAlways ==
    /\ pc = "sign"
    /\ \E sq \in SqStates, res \in SignOutcomes :
          /\ res = sign_package_with_sq(sq)
          /\ calls' = Append(calls, Event("sign", cur, res, "", <<>>, sq))
          /\ processed' = processed \cup {cur}
          /\ NextPackage
    /\ UNCHANGED <<repodataExists, manifests, distExists, packages, bstate, output>>
    /\ UNCHANGED <<resolverVars, flagVars, archiveVars>>

\* signer.sign_package_with_sq(package_path), then the end of the loop body
Sign ==
    /\ pc = "sign"
    /\ \E sq \in SqStates, res \in SignOutcomes :
          /\ res = sign_package_with_sq(sq)
          /\ calls' = Append(calls, Event("sign", cur, res, "", <<>>, sq))
          /\ processed' = IF res = "True" THEN processed \cup {cur} ELSE processed
          /\ NextPackage
    /\ UNCHANGED <<repodataExists, manifests, distExists, packages, bstate, output>>
    /\ UNCHANGED <<resolverVars, flagVars, archiveVars>>

(***************************************************************************)
(* Specification of one resolve_latest_version call                        *)
(***************************************************************************)
ResolverIdle ==
    /\ rUrl = Url("ftp.gnu.org", <<>>)
    /\ rHttp = [api |-> HttpError, listing |-> HttpError, jsonErrorIsRequestException |-> TRUE]
    /\ rResult = Returned(<<>>)
    /\ rDone = FALSE

FlagsIdle ==
    /\ fSystem = ""
    /\ fFlags = <<>>
    /\ fResult = <<>>
    /\ fDone = FALSE

\* the package record of the call: the parsed base manifest
ArchiveRecord == parse_package(M_meson, Unreachable).value

\* a record whose version was "latest" and resolved to 2.3.0, and a record
\* with optional descriptive fields
TagAnswered == [Unreachable EXCEPT !.api = HttpJson(JObj(<< <<"tag_name", JStr(Tag_v230)>> >>))]
M_described ==
    Manifest(SetKey(SetKey(BasePackage, "tags", WordList(<<"a", "b">>)),
                    "description", JStr(<<"d">>)),
             BaseBuild)
ArchiveRecords ==
    {ArchiveRecord, parse_package(M_cargo, TagAnswered).value,
     parse_package(M_described, Unreachable).value}

\* metadata overlays whose package section meets the record's keys in each way
MergeOverlays ==
    MetadataOverlays \cup
    {JObj(<< <<"package", JObj(<< <<"tags", WordList(<<"b", "c", "c">>)>>,
                                  <<"version", JStr(<<"9">>)>>,
                                  <<"license", JStr(<<"MIT">>)>> >>)>> >>),
     JObj(<< <<"package", JObj(<< <<"tags", JStr(<<"x">>)>>,
                                  <<"description", WordList(<<"l">>)>>,
                                  <<"name", JStr(<<"other">>)>>,
                                  <<"architecture", JStr(<<"arm">>)>> >>)>> >>),
     JObj(<< <<"package", JStr(<<"x">>)>> >>)}

\* one call: the record and the rest of the input
ArchiveCall(record, in) ==
    [record |-> record, install |-> in.install, fs |-> in.fs, meta |-> in.meta, env |-> in.env]

\* every tree, overlay and environment on the base record; every record and
\* metadata overlay on the default environment
ArchiveCalls ==
    {ArchiveCall(ArchiveRecord, PackagingInput(i, f, m, e)) :
        i \in InstallTrees, f \in Overlays, m \in MetadataOverlays, e \in PackagingEnvs}
      \cup {ArchiveCall(r, PackagingInput(i, NoOverlay, m, [DefaultEnv EXCEPT !.zstd = z])) :
                r \in ArchiveRecords, i \in InstallTrees, m \in MergeOverlays, z \in ZstdStates}

MainIdle ==
    /\ repodataExists = FALSE
    /\ manifests = <<>>
    /\ distExists = FALSE
    /\ pc = "idle"
    /\ packages = <<>>
    /\ cur = 0
    /\ bstate = "NotStarted"
    /\ calls = <<>>
    /\ outcome = "running"
    /\ processed = {}
    /\ output = {}
    /\ scratch = {}

ArchiveIdle ==
    /\ aIn = ArchiveCall(NoRecord, PackagingInput(NoTree, NoOverlay, NoMetadata, DefaultEnv))
    /\ aResult = PackagingRaised("", FileName(<<>>, ""), {}, NoRecord)
    /\ aDone = FALSE

InitResolver ==
    /\ rUrl \in Urls
    /\ rHttp \in HttpEnvs
    /\ rResult = Returned(<<>>)
    /\ rDone = FALSE
    /\ FlagsIdle
    /\ MainIdle
    /\ ArchiveIdle

Resolve ==
    /\ ~rDone
    /\ rResult' = resolve_latest_version(rUrl, rHttp)
    /\ rDone' = TRUE
    /\ UNCHANGED <<rUrl, rHttp>>
    /\ UNCHANGED <<flagVars, mainVars, archiveVars>>

NextResolver == Resolve

(***************************************************************************)
(* Specification of one translate_flags call                               *)
(***************************************************************************)
BuildSystems == {"meson", "cmake", "autotools", "cargo", "python-pep517", "gradle", "scons"}
UseFlagNames == {"nls", "shared", "lto", "debug", "release", "optimizations", "static"}

RECURSIVE FlagSeqs(_)
FlagSeqs(n) ==
    IF n = 0 THEN {<<>>}
    ELSE LET shorter == FlagSeqs(n - 1)
         IN shorter \cup {Append(s, f) : s \in {x \in shorter : Len(x) = n - 1}, f \in UseFlagNames}

InitFlags ==
    /\ fSystem \in BuildSystems
    /\ fFlags \in FlagSeqs(MaxFlags)
    /\ fResult = <<>>
    /\ fDone = FALSE
    /\ ResolverIdle
    /\ MainIdle
    /\ ArchiveIdle

Translate ==
    /\ ~fDone
    /\ fResult' = translate_flags(fSystem, fFlags)
    /\ fDone' = TRUE
    /\ UNCHANGED <<fSystem, fFlags>>
    /\ UNCHANGED <<resolverVars, mainVars, archiveVars>>

NextFlags == Translate

SpecFlags == InitFlags /\ [][NextFlags]_vars

(***************************************************************************)
(* Specification of one create_apg_package call                            *)
(***************************************************************************)
InitArchive ==
    /\ aIn \in ArchiveCalls
    /\ aResult = PackagingRaised("", FileName(<<>>, ""), {}, NoRecord)
    /\ aDone = FALSE
    /\ ResolverIdle
    /\ FlagsIdle
    /\ MainIdle

Package ==
    /\ ~aDone
    /\ aResult' = create_apg_package(aIn.record, aIn.install, aIn.fs, aIn.meta, aIn.env)
    /\ aDone' = TRUE
    /\ UNCHANGED aIn
    /\ UNCHANGED <<resolverVars, flagVars, mainVars>>

NextArchive == Package

SpecArchive == InitArchive /\ [][NextArchive]_vars

(***************************************************************************)
(* Specification of a run of main                                          *)
(***************************************************************************)
Init ==
    /\ \/ /\ repodataExists = FALSE
          /\ manifests = <<>>
          /\ distExists = TRUE
       \/ /\ repodataExists = TRUE
          /\ manifests \in Batches(MaxManifests)
          /\ distExists \in BOOLEAN
    /\ pc = "parse"
    /\ packages = <<>>
    /\ cur = 0
    /\ bstate = "NotStarted"
    /\ calls = <<>>
    /\ outcome = "running"
    /\ processed = {}
    /\ output = {}
    /\ scratch = {}
    /\ ResolverIdle
    /\ FlagsIdle
    /\ ArchiveIdle

Next ==
    \/ ParseNothing
    \/ ParseOne
    \/ Download
    \/ Setup
    \/ Compile
    \/ Install
    \/ CreatePackage
    \/ Sign

Spec == Init /\ [][Next]_vars

\* main is one sequential program: as long as every external call returns, the
\* step it is at is taken
SpecLive == Init /\ [][Next]_vars /\ WF_vars(Next)

SpecResolver == InitResolver /\ [][NextResolver]_vars

(***************************************************************************)
(* Properties                                                              *)
(***************************************************************************)
IsForgeUrl(url) == IsGithubHost(url.netloc) \/ IsGitlabHost(url.netloc)

\* C5: resolve_latest_version is total: whatever the HTTP calls answer, it
\* returns a string and never raises.
C5_ResolveNeverRaises == rDone => ~rResult.raised

\* C7: for a forge URL the returned version is never the empty string: a
\* successful API answer without a release tag falls through to the generic
\* strategy.
C7_ForgeResultNeverEmpty ==
    (rDone /\ IsForgeUrl(rUrl) /\ ~rResult.raised) => rResult.value # <<>>

\* the integer triple of each version string a listing of the model can hold
TripleOf(v) ==
    CASE v = V_1_9_0 -> <<1, 9, 0>>
      [] v = V_1_10_0 -> <<1, 10, 0>>
      [] v = V_1_09_0 -> <<1, 9, 0>>

\* major, then minor, then patch, as integers
TripleLeq(a, b) ==
    \/ a[1] < b[1]
    \/ a[1] = b[1] /\ a[2] < b[2]
    \/ a[1] = b[1] /\ a[2] = b[2] /\ a[3] <= b[3]

\* the call went to the generic strategy and its request was answered
GenericAnswered ==
    /\ rDone
    /\ rHttp.listing.kind = "text"
    /\ \/ ~IsForgeUrl(rUrl)
       \/ Len(path_parts(rUrl)) < 2
       \/ RequestFailed(rHttp.api)

\* s is digits "." digits "." digits
IsTriple(s) ==
    \E a, b \in 2..(Len(s) - 1) :
        /\ a + 1 < b
        /\ s[a] = "." /\ s[b] = "."
        /\ \A i \in 1..Len(s) : i \notin {a, b} => s[i] \in Digits

\* the candidates of a listing: the substrings major.minor.patch that stand
\* between whitespace, "/", "_", "-" or the ends of the text
Candidates(text) ==
    {SubSeq(text, i, j) : <<i, j>> \in
        {ij \in (1..Len(text)) \X (1..Len(text)) :
            /\ ij[1] <= ij[2]
            /\ IsTriple(SubSeq(text, ij[1], ij[2]))
            /\ ij[1] = 1 \/ IsDelim(text[ij[1] - 1])
            /\ ij[2] = Len(text) \/ IsDelim(text[ij[2] + 1])}}

\* C8: the generic fallback returns the candidate of the listing that is
\* maximal under numeric comparison of (major, minor, patch): 1.10.0 when the
\* candidates are 1.9.0 and 1.10.0; "unknown" when the listing holds none.
C8_GenericReturnsNumericMax ==
    GenericAnswered =>
        LET found == Candidates(rHttp.listing.text)
        IN /\ ~rResult.raised
           /\ (found = {}) => rResult.value = Unknown
           /\ (found # {}) =>
                /\ rResult.value \in found
                /\ \A c \in found : TripleLeq(TripleOf(c), TripleOf(rResult.value))

\* the flags of the call that the build system's table holds, by position
KnownAt(i) == fFlags[i] \in DOMAIN flag_mappings[MappingKey(fSystem)]
Rank(i) == Cardinality({j \in 1..i : KnownAt(j)})

\* C9: for a known build system the result holds exactly the mapped arguments
\* of the supported input flags, in input order with duplicates kept; for an
\* unknown build system it is empty.
C9_TranslateExactInOrder ==
    fDone =>
        IF KnownSystem(fSystem)
        THEN /\ Len(fResult) = Cardinality({j \in 1..Len(fFlags) : KnownAt(j)})
             /\ \A i \in 1..Len(fFlags) :
                    KnownAt(i) =>
                        fResult[Rank(i)] = flag_mappings[MappingKey(fSystem)][fFlags[i]]
        ELSE fResult = <<>>

\* C9 witness: an unsupported flag between two supported ones is dropped and
\* the two arguments keep their order
C9_Witness ==
    /\ fDone
    /\ fSystem = "meson"
    /\ fFlags = <<"shared", "static", "lto">>
    /\ fResult = <<"-Ddefault_library=shared", "-Db_lto=true">>

(***************************************************************************)
(* Properties of a run of main                                             *)
(***************************************************************************)
BuildStages == {"setup", "compile", "install"}
PipelineOps == {"download", "setup", "compile", "install", "archive", "sign"}

\* the manifests that violate one of the structural rules
RuleBreakers == MissingSection \cup MissingField \cup NonStringField \cup BadDependencies

\* C1: if any manifest of the directory violates the structural rules,
\* parse_all_packages raises and main invokes no download, no build stage, no
\* archive assembly and no signing for any package of the batch.
C1_InvalidManifestGatesBatch ==
    (\E i \in 1..Len(manifests) : manifests[i] \in RuleBreakers) =>
        /\ \A k \in 1..Len(calls) : calls[k].op \notin PipelineOps
        /\ pc \in {"parse", "done"}
        /\ pc = "done" => outcome \in {"validation_error", "unexpected_error"}
        /\ processed = {} /\ output = {}

\* C1 witness: a valid manifest was parsed, the bad one after it ended the run
C1_Witness ==
    /\ pc = "done"
    /\ outcome = "validation_error"
    /\ Len(manifests) = 2
    /\ manifests[1] \in ValidManifests
    /\ manifests[2] \in RuleBreakers
    /\ Len(packages) = 1
    /\ calls = <<>>

\* a package-scoped failure: acquisition or a build stage answered False, the
\* archive assembly raised, signing answered False
PackageFailure(e) ==
    \/ e.op \in {"download", "sign"} \cup BuildStages /\ e.res = "False"
    \/ e.op = "archive" /\ e.res = "raise"

\* C2: a per-package pipeline error aborts only that package: after the
\* failure of a package, every later package of the batch is still processed.
C2_PackageErrorAbortsOnlyThatPackage ==
    pc = "done" =>
        \A k \in 1..Len(calls) :
            (PackageFailure(calls[k]) /\ calls[k].pkg < Len(packages)) =>
                \E m \in (k + 1)..Len(calls) :
                    calls[m].op = "download" /\ calls[m].pkg = calls[k].pkg + 1

\* C3: when setup, compile or install of a package returns failure, nothing
\* more is invoked for that package, and the next package of the batch is
\* processed (main returns normally if it was the last).
C3_StageFailureHaltsPackageOnly ==
    \A k \in 1..Len(calls) :
        (calls[k].op \in BuildStages /\ calls[k].res = "False") =>
            /\ \A m \in (k + 1)..Len(calls) : calls[m].pkg # calls[k].pkg
            /\ calls[k].pkg \notin processed
            /\ IF calls[k].pkg < Len(packages)
               THEN IF k = Len(calls)
                    THEN pc = "download" /\ cur = calls[k].pkg + 1
                    ELSE calls[k + 1].op = "download" /\ calls[k + 1].pkg = calls[k].pkg + 1
               ELSE pc = "done" /\ outcome = "completed"

\* C3 witness: compile of the first package failed, the second was built
C3_Witness ==
    /\ \E k \in 1..Len(calls) :
          calls[k].op = "compile" /\ calls[k].res = "False" /\ calls[k].pkg = 1
    /\ \E k \in 1..Len(calls) :
          calls[k].op = "install" /\ calls[k].res = "True" /\ calls[k].pkg = 2

StageOrder == <<"setup", "compile", "install">>
StagesOf(p) == SelectSeq(calls, LAMBDA e : e.pkg = p /\ e.op \in BuildStages)

\* C4: per package, setup, compile and install are invoked at most once each,
\* in that order, each only after the previous one returned success; the
\* build state follows NotStarted -> SetupDone -> CompileDone -> InstallDone,
\* and no stage is invoked from Failed.
C4_BuildStateMachine ==
    /\ \A p \in 1..Len(packages) :
          /\ Len(StagesOf(p)) <= 3
          /\ \A i \in 1..Len(StagesOf(p)) :
                /\ StagesOf(p)[i].op = StageOrder[i]
                /\ i < Len(StagesOf(p)) => StagesOf(p)[i].res = "True"
    /\ pc = "setup" => bstate = "NotStarted"
    /\ pc = "compile" => bstate = "SetupDone"
    /\ pc = "install" => bstate = "CompileDone"
    /\ pc \in {"package", "sign"} => bstate = "InstallDone"
    /\ bstate = "Failed" => pc \in {"download", "done"}
    /\ bstate \in {"NotStarted", "SetupDone", "CompileDone", "InstallDone", "Failed"}

\* C4 witness: setup and compile succeeded, install failed: Failed is reached
\* after two successful stages
C4_Witness ==
    /\ bstate = "Failed"
    /\ Len(StagesOf(1)) = 3
    /\ StagesOf(1)[3].res = "False"
    /\ Len(packages) = 1
    /\ pc = "done"

\* the version of a package record
VersionOf(record) == GetKey(record.package, "version").s

\* C6: for a manifest with version "latest" whose source host is unreachable,
\* the resolver does not raise, the version stored in the record is "unknown",
\* and the package is downloaded and built like any other.
C6_UnreachableGivesUnknown ==
    \A k \in 1..Len(calls) :
        (calls[k].op = "resolve" /\ calls[k].net = "unreachable") =>
            /\ calls[k].res = "True"
            /\ Len(packages) >= calls[k].pkg
            /\ VersionOf(packages[calls[k].pkg]) = <<"u", "n", "k", "n", "o", "w", "n">>
            /\ (distExists /\ (cur > calls[k].pkg \/ (cur = calls[k].pkg /\ pc # "download"))) =>
                  \E m \in 1..Len(calls) :
                      calls[m].op = "download" /\ calls[m].pkg = calls[k].pkg

\* C6 witness: a package whose version resolved to "unknown" on an unreachable
\* host was built, packed and signed
C6_Witness ==
    /\ \E k \in 1..Len(calls) :
          calls[k].op = "resolve" /\ calls[k].net = "unreachable" /\ calls[k].pkg = 1
    /\ VersionOf(packages[1]) = Unknown
    /\ 1 \in processed

(***************************************************************************)
(* Properties of create_apg_package                                        *)
(***************************************************************************)
LinesFor(lines, p) == {i \in 1..Len(lines) : lines[i].path = p}

\* C10: the checksum manifest of a produced archive has exactly one line for
\* every regular file under data/, no path twice, and no line for a directory.
C10_ChecksumsCoverRegularFiles ==
    (aDone /\ ~aResult.raised) =>
        LET data == aResult.archive.data
            lines == aResult.archive.crc32sums
        IN /\ \A p \in Paths :
                  data.nodes[p].kind = "file" => Cardinality(LinesFor(lines, p)) = 1
           /\ \A i, j \in 1..Len(lines) : lines[i].path = lines[j].path => i = j
           /\ \A i \in 1..Len(lines) : data.nodes[lines[i].path].kind # "dir"

\* C10 witness: a file copied from the install root and a file added by the
\* overlay are both listed, next to directories that are not
C10_Witness ==
    /\ aDone
    /\ ~aResult.raised
    /\ aIn.install.nodes["usr/bin/app"].kind = "file"
    /\ aIn.install.nodes["etc/app.conf"].kind = "none"
    /\ aResult.archive.data.nodes["etc/app.conf"].kind = "file"
    /\ aResult.archive.data.nodes["usr/bin"].kind = "dir"
    /\ Cardinality(LinesFor(aResult.archive.crc32sums, "usr/bin/app")) = 1
    /\ Cardinality(LinesFor(aResult.archive.crc32sums, "etc/app.conf")) = 1

Field(record, key) == GetKey(record.package, key)

\* C12: the metadata.json of a produced archive holds name, version and
\* architecture (in its package section); they are the values the archive
\* file name is made of and the values of the record given to the call,
\* whatever the metadata overlay says.
C12_MetadataIdentityFields ==
    (aDone /\ ~aResult.raised) =>
        LET metadata == aResult.archive.metadata
        IN /\ \A key \in {"name", "version", "architecture"} :
                 /\ HasKey(metadata.package, key)
                 /\ Field(metadata, key) = Field(aIn.record, key)
           /\ aResult.path.ext = "apg"
           /\ aResult.path.stem = Field(metadata, "name").s \o <<"-">> \o
                                  Field(metadata, "version").s \o <<"-">> \o
                                  Field(metadata, "architecture").s

\* C12 witness: the record's version was resolved from "latest" to 2.3.0, the
\* overlay names another version and a license: the license is taken, the
\* version is not
C12_Witness ==
    /\ aDone
    /\ ~aResult.raised
    /\ Field(aIn.record, "version") = JStr(Tag_230)
    /\ aIn.meta.t = "obj" /\ HasKey(aIn.meta, "package")
    /\ HasKey(GetKey(aIn.meta, "package"), "version")
    /\ Field(aResult.archive.metadata, "version") = JStr(Tag_230)
    /\ HasKey(aResult.archive.metadata.package, "license")

\* the elements of a JSON array
Elements(arr) == {arr.items[i] : i \in 1..Len(arr.items)}
Keys(obj) == {obj.fields[i][1] : i \in 1..Len(obj.fields)}

\* the archive was produced with a metadata overlay that has a package section
MergedWithOverlay ==
    /\ aDone
    /\ ~aResult.raised
    /\ aIn.meta.t = "obj"
    /\ HasKey(aIn.meta, "package")

\* C13: for every key of the overlay's package section, the merged value is
\* the duplicate-free union when the record has the key and both values are
\* lists, the record's value when the record has the key otherwise, and the
\* overlay's value when only the overlay has the key; keys only in the record
\* keep their value.
C13_MetadataMergeRule ==
    MergedWithOverlay =>
        LET manifest == aIn.record.package
            overlay == GetKey(aIn.meta, "package")
            merged == aResult.archive.metadata.package
        IN /\ Keys(merged) = Keys(manifest) \cup Keys(overlay)
           /\ \A key \in Keys(overlay) :
                 IF key \in Keys(manifest)
                 THEN IF GetKey(manifest, key).t = "arr" /\ GetKey(overlay, key).t = "arr"
                      THEN /\ GetKey(merged, key).t = "arr"
                           /\ Elements(GetKey(merged, key)) =
                                 Elements(GetKey(manifest, key)) \cup Elements(GetKey(overlay, key))
                           /\ Len(GetKey(merged, key).items) =
                                 Cardinality(Elements(GetKey(merged, key)))
                      ELSE GetKey(merged, key) = GetKey(manifest, key)
                 ELSE GetKey(merged, key) = GetKey(overlay, key)
           /\ \A key \in Keys(manifest) \ Keys(overlay) :
                 GetKey(merged, key) = GetKey(manifest, key)

\* C13 witness: one overlay meets a list with a list, a string with a string,
\* and brings a key of its own
C13_Witness ==
    /\ MergedWithOverlay
    /\ HasKey(aIn.record.package, "tags")
    /\ Field(aIn.record, "tags") = WordList(<<"a", "b">>)
    /\ GetKey(aIn.meta, "package").t = "obj"
    /\ HasKey(GetKey(aIn.meta, "package"), "tags")
    /\ GetKey(GetKey(aIn.meta, "package"), "tags") = WordList(<<"b", "c", "c">>)
    /\ Elements(Field(aResult.archive.metadata, "tags")) =
          {JStr(<<"a">>), JStr(<<"b">>), JStr(<<"c">>)}
    /\ Field(aResult.archive.metadata, "version") = JStr(V_1_3_1)
    /\ Field(aResult.archive.metadata, "license") = JStr(<<"MIT">>)

\* C14: every produced archive has exactly the three top-level entries data,
\* metadata.json and crc32sums, also when the install directory is missing or
\* empty and no overlay is configured.
C14_ArchiveHasThreeEntries ==
    (aDone /\ ~aResult.raised) =>
        aResult.archive.entries = {"data", "metadata.json", "crc32sums"}

\* the part of C14 that holds: when the install directory exists (empty or
\* not), data is among the entries
C14_DataPresentWhenInstallExists ==
    (aDone /\ ~aResult.raised /\ aIn.install.exists) =>
        aResult.archive.entries = {"data", "metadata.json", "crc32sums"}

\* C15: when the compressor is not installed, create_apg_package raises and
\* the run stops there: the archive step of the first package that reaches it
\* is the last operation of the run.
C15_MissingCompressorStopsRun ==
    \A k \in 1..Len(calls) :
        (calls[k].op = "archive" /\ calls[k].net = "missing") =>
            /\ calls[k].res = "raise"
            /\ calls[k].exc = "RuntimeError"
            /\ k = Len(calls)
            /\ pc = "done"
            /\ outcome = "unexpected_error"
            /\ processed \subseteq 1..(calls[k].pkg - 1)

\* C15 witness: two packages were parsed, the first reached the archive step
\* without a compressor, and nothing was invoked for the second
C15_Witness ==
    /\ Len(packages) = 2
    /\ pc = "done"
    /\ \E k \in 1..Len(calls) :
          calls[k].op = "archive" /\ calls[k].net = "missing" /\ calls[k].pkg = 1
    /\ \A k \in 1..Len(calls) : calls[k].pkg = 2 => calls[k].op = "resolve"

\* C16: when the signing binary is absent from the host the run ends with a
\* fatal error: the signing step of the first package that reaches it is the
\* last operation of the run, and main does not complete normally.
C16_MissingSignerStopsRun ==
    \A k \in 1..Len(calls) :
        (calls[k].op = "sign" /\ calls[k].net = "missing") =>
            /\ k = Len(calls)
            /\ pc = "done"
            /\ outcome # "completed"

\* C17: at most one package's scratch area exists, it is the one of the
\* package whose pipeline is running, and it is gone when that pipeline has
\* ended, whether by success, by a skipped stage or by an exception.
C17_ScratchScopedPerPackage ==
    /\ Cardinality(scratch) <= 1
    /\ scratch \subseteq {cur}
    /\ pc \in {"setup", "compile", "install", "package", "sign"} => scratch = {cur}
    /\ pc \in {"parse", "download", "done"} => scratch = {}

\* C17 witness: the first package ended by an exception of the archive step,
\* the run is over and no scratch area is left
C17_Witness ==
    /\ pc = "done"
    /\ outcome = "unexpected_error"
    /\ \E k \in 1..Len(calls) : calls[k].op = "archive" /\ calls[k].res = "raise"
    /\ \E k \in 1..Len(calls) : calls[k].op = "sign" /\ calls[k].res = "False"
    /\ scratch = {}

\* the name written in a manifest file
NameIn(file) == GetKey(GetKey(file.data, "package"), "name")

\* the entries of the history that belong to a package's pipeline
IsPipelineEvent(e) == e.op \in PipelineOps

\* C18: parse_all_packages returns one record per manifest file, in the order
\* of discovery, and main runs the pipelines one after the other in that
\* order: once an operation of package i+1 was invoked, none of package i is.
C18_SequentialInDiscoveryOrder ==
    /\ Len(packages) <= Len(manifests)
    /\ \A i \in 1..Len(packages) : Field(packages[i], "name") = NameIn(manifests[i])
    /\ pc \notin {"parse", "done"} => Len(packages) = Len(manifests)
    /\ \A k \in 1..Len(calls) :
          IsPipelineEvent(calls[k]) =>
             /\ calls[k].pkg <= cur
             /\ \A m \in k..Len(calls) :
                   IsPipelineEvent(calls[m]) => calls[k].pkg <= calls[m].pkg
    /\ \A i \in 1..Len(packages) :
          (\E k \in 1..Len(calls) : IsPipelineEvent(calls[k]) /\ calls[k].pkg = i + 1) =>
              cur > i

\* C18 witness: two manifests with different names were parsed, the first
\* package was signed and then the second was downloaded
C18_Witness ==
    /\ Len(packages) = 2
    /\ NameIn(manifests[1]) # NameIn(manifests[2])
    /\ \E k \in 1..Len(calls) :
          /\ calls[k].op = "sign" /\ calls[k].pkg = 1
          /\ k < Len(calls)
          /\ calls[k + 1].op = "download" /\ calls[k + 1].pkg = 2

\* the exit status of the process for each way main ends: main returns None
\* after the loop and from both except clauses, and the module calls main()
\* without sys.exit, so the interpreter ends with status 0 every time
exit_status(o) ==
    CASE o = "completed" -> 0
      [] o = "validation_error" -> 0
      [] o = "unexpected_error" -> 0
      [] OTHER -> 0

\* every package of the batch was archived and signed
AllArchivedAndSigned ==
    /\ outcome = "completed"
    /\ \A i \in 1..Len(packages) :
          /\ \E k \in 1..Len(calls) :
                calls[k].op = "archive" /\ calls[k].pkg = i /\ calls[k].res = "True"
          /\ \E k \in 1..Len(calls) :
                calls[k].op = "sign" /\ calls[k].pkg = i /\ calls[k].res = "True"

\* C19: when main has ended, its exit status is the success status exactly
\* when every package was archived and signed; a run with a skipped package
\* or an aborted run ends with another status.
C19_ExitTellsFailure ==
    pc = "done" => (exit_status(outcome) = 0 <=> AllArchivedAndSigned)

\* C20: every stage of every template answers True or False and never
\* raises, whatever the host lacks (the build tool, target/release), and a
\* stage that did not answer True never ends the run with an error.
C20_StagesNeverRaise ==
    \A k \in 1..Len(calls) :
       calls[k].op \in BuildStages =>
          /\ calls[k].res \in {"True", "False"}
          /\ (calls[k].res # "True" /\ pc = "done" /\ calls[k].pkg = cur
                 => outcome = "completed")

\* C21: a manifest whose name, architecture or source is the empty string is
\* rejected: no record of the parsed batch has an empty string in one of
\* these fields, and a batch holding such a manifest ends in a validation
\* error without any pipeline operation.
C21_EmptyRequiredFieldRejected ==
    /\ \A i \in 1..Len(packages) :
          \A f \in {"name", "architecture", "source"} : Field(packages[i], f).s # <<>>
    /\ (\E i \in 1..Len(manifests) : manifests[i] \in EmptyField) =>
          /\ \A k \in 1..Len(calls) : calls[k].op \notin PipelineOps
          /\ pc = "done" => outcome = "validation_error"

\* the raw extra_flags written in a manifest file (none, a list or a string)
RawExtraFlags(file) ==
    LET build_info == GetKey(file.data, "build")
        given == IF HasKey(build_info, "extra_flags")
                 THEN GetKey(build_info, "extra_flags") ELSE JArr(<<>>)
    IN IF given.t = "str" THEN <<Word(given)>> ELSE Words(given)

\* the translated flags the parser stored in a record
TranslatedOf(record) ==
    IF HasKey(record.build, "translated_flags")
    THEN Words(GetKey(record.build, "translated_flags")) ELSE <<>>

\* C22: the compile step of a package is handed the translated flags followed
\* by the raw extra_flags of its manifest, duplicates kept.
C22_CompileGetsTranslatedThenRaw ==
    \A k \in 1..Len(calls) :
       calls[k].op = "compile" =>
          calls[k].flags = TranslatedOf(packages[calls[k].pkg])
                              \o RawExtraFlags(manifests[calls[k].pkg])

\* C23: after parsing, the record of a package stays as the parser produced
\* it: build_package and create_apg_package change no field of it (stated for
\* the manifests whose version is written out, whose record does not depend on
\* the network).
C23_RecordReadOnlyAfterParse ==
    \A i \in 1..Len(packages) :
       ~NeedsResolve(manifests[i]) =>
          packages[i] = parse_package(manifests[i], Unreachable).value

\* C24: crc32sums of a produced archive has no line for a symbolic link,
\* whatever the link resolves to.
C24_NoChecksumForSymlink ==
    (aDone /\ ~aResult.raised) =>
        \A i \in 1..Len(aResult.archive.crc32sums) :
           aResult.archive.data.nodes[aResult.archive.crc32sums[i].path].kind # "link"

\* the install copy holds something at path p
Installed(p) == aIn.install.exists /\ aIn.install.nodes[p].kind # "none"

\* applying the overlay raised
OverlayFailed == aResult.raised /\ aResult.exc \in {"FileExistsError", "IsADirectoryError"}

\* C25: an overlay entry whose destination already exists in data/ from the
\* install copy is applied without error, and in the produced archive a
\* symbolic link entry has put its link at the destination and a directory
\* entry has left a directory there.
C25_OverlayOverridesInstall ==
    (aDone /\ aIn.fs.present) =>
        /\ \A i \in 1..Len(aIn.fs.symlinks) :
              Installed(aIn.fs.symlinks[i].destination) =>
                 /\ ~OverlayFailed
                 /\ ~aResult.raised =>
                       aResult.archive.data.nodes[aIn.fs.symlinks[i].destination].kind = "link"
        /\ \A i \in 1..Len(aIn.fs.directories) :
              Installed(aIn.fs.directories[i].path) =>
                 /\ ~OverlayFailed
                 /\ ~aResult.raised =>
                       aResult.archive.data.nodes[aIn.fs.directories[i].path].kind = "dir"
        /\ \A i \in 1..Len(aIn.fs.files) :
              (Installed(aIn.fs.files[i].destination) /\ aIn.fs.files[i].exists) => ~OverlayFailed

\* C26: when main has ended, every .apg file in the output directory is the
\* archive of a package whose signing succeeded.
C26_OnlySignedArchivesRemain ==
    pc = "done" =>
        \A f \in output :
           f.ext = "apg" =>
              \E k \in 1..Len(calls) :
                 /\ calls[k].op = "sign" /\ calls[k].res = "True"
                 /\ ApgName(packages[calls[k].pkg]) = f

\* package i names a build template that get_template does not know
UnsupportedTemplateAt(i) ==
    template_name(packages[i]) \notin
        {"meson", "cmake", "autotools", "cargo", "python-pep517", "gradle"}

HasEvent(op, i) == \E k \in 1..Len(calls) : calls[k].op = op /\ calls[k].pkg = i

\* C27: a manifest whose build.template names no supported strategy is
\* parsed into a record; for that package no setup, compile or install is
\* invoked, nothing is archived or signed, and the run goes on: once main has
\* ended after downloading it, the next package was given to the downloader,
\* or, if it was the last one, main ended normally.
C27_UnsupportedTemplateSkipsPackage ==
    \A i \in 1..Len(packages) :
       UnsupportedTemplateAt(i) =>
          /\ \A op \in BuildStages \cup {"archive", "sign"} : ~HasEvent(op, i)
          /\ i \notin processed
          /\ (pc = "done" /\ \E k \in 1..Len(calls) :
                 calls[k].op = "download" /\ calls[k].pkg = i /\ calls[k].res = "True") =>
                IF i < Len(packages) THEN HasEvent("download", i + 1)
                ELSE outcome = "completed"

\* C27 witness: the first of two packages names an unknown template; it was
\* downloaded and skipped, and the second one was built
C27_Witness ==
    /\ Len(packages) = 2
    /\ UnsupportedTemplateAt(1)
    /\ \E k \in 1..Len(calls) :
          calls[k].op = "download" /\ calls[k].pkg = 1 /\ calls[k].res = "True"
    /\ ~HasEvent("setup", 1)
    /\ HasEvent("install", 2)

\* the fixed vocabulary of `use` flags
Vocabulary == {"nls", "shared", "lto", "debug", "release", "optimizations"}

\* C28: for a template that get_template accepts, translate_flags knows the
\* build system: every flag of the fixed vocabulary yields one translated
\* argument.
C28_SupportedTemplateTranslates ==
    (fDone /\ SupportedTemplate(fSystem)) =>
        /\ KnownSystem(fSystem)
        /\ (\A i \in 1..Len(fFlags) : fFlags[i] \in Vocabulary) => Len(fResult) = Len(fFlags)

\* C29: a successful create_apg_package has added exactly one file to the
\* output directory, the .apg archive it returns; no .tar and no .tar.zst
\* stays behind.
C29_OnlyApgAdded ==
    (aDone /\ ~aResult.raised) =>
        /\ aResult.added = {aResult.path}
        /\ aResult.path.ext = "apg"

\* the pipeline operations invoked for package i, in order
EventsOf(i) == SelectSeq(calls, LAMBDA e : IsPipelineEvent(e) /\ e.pkg = i)

LastOf(events) == events[Len(events)]

\* downloaded, built, archived and signed, in that order
FullyProcessed(i) ==
    LET ev == EventsOf(i)
    IN /\ [k \in 1..Len(ev) |-> ev[k].op] =
             <<"download", "setup", "compile", "install", "archive", "sign">>
       /\ \A k \in 1..Len(ev) : ev[k].res = "True"

\* skipped after a failure main logged: the last operation answered False, or
\* the template was refused after the download
SkippedAfterFailure(i) ==
    LET ev == EventsOf(i)
    IN /\ ev # <<>>
       /\ \/ LastOf(ev).res = "False"
          \/ /\ UnsupportedTemplateAt(i)
             /\ Len(ev) = 1
             /\ ev[1].res = "True"

\* no operation was invoked for it: an exception had ended the run
NeverStarted(i) == EventsOf(i) = <<>> /\ outcome = "unexpected_error"

\* an operation of its own pipeline raised and ended the run
AbortedMidway(i) ==
    LET ev == EventsOf(i)
    IN /\ ev # <<>>
       /\ LastOf(ev).res = "raise"
       /\ outcome = "unexpected_error"
       /\ i = cur

\* main has ended on a batch that passed validation
EndedValidated == pc = "done" /\ outcome # "validation_error"

ExactlyOne(bs) == Cardinality({k \in 1..Len(bs) : bs[k]}) = 1

\* C30 as stated: at the end of a run on a validated batch every package is in
\* exactly one of three outcomes (fully processed, skipped after a reported
\* failure, never started), and is reported as processed only when fully
\* processed.
C30_ThreeOutcomes ==
    EndedValidated =>
        \A i \in 1..Len(packages) :
           /\ ExactlyOne(<<FullyProcessed(i), SkippedAfterFailure(i), NeverStarted(i)>>)
           /\ i \in processed => FullyProcessed(i)

\* the four outcomes of a package at the end of a run
FourOutcomes ==
    EndedValidated =>
        \A i \in 1..Len(packages) :
           /\ ExactlyOne(<<FullyProcessed(i), SkippedAfterFailure(i), NeverStarted(i),
                           AbortedMidway(i)>>)
           /\ i \in processed <=> FullyProcessed(i)

\* C30 (amended): main terminates, and at the end of a run on a validated
\* batch every package is in exactly one of four outcomes: fully processed,
\* skipped after a reported failure, never started, or aborted in the middle
\* of its own pipeline by the exception that ended the run; it is reported
\* as processed exactly when it was fully processed.
C30_TerminatesWithOneOutcome == <>(pc = "done") /\ []FourOutcomes

\* C30 witness: the first package was fully processed and reported, the
\* second was aborted in its pipeline by an exception, and main has ended
C30_Witness ==
    /\ pc = "done"
    /\ Len(packages) = 2
    /\ FullyProcessed(1) /\ 1 \in processed
    /\ AbortedMidway(2) /\ 2 \notin processed
====
